---------------------------- MODULE Spec2Model ----------------------------
(***************************************************************************)
(* Farcaster Names (.farcaster.celo): the frame interaction state machine  *)
(* (POST /api/frame), the frame state codec it calls, and the minting      *)
(* pipeline (validateMintingParams, registerDomainWithTransaction).        *)
(*                                                                         *)
(* Optional values (a field that may be undefined) are sequences of length *)
(* at most one: None is <<>>, Some(v) is <<v>>.                            *)
(***************************************************************************)
EXTENDS Integers, Sequences, FiniteSets, TLC

VARIABLES
    body,           \* frame: the body of the last POST /api/frame request
    currentState,   \* frame: parseFrameState(body.untrustedData?.state)
    nextState,      \* frame: the handler's nextState local
    response,       \* frame: the last response sent (None before any request)
    params,         \* validate: the MintingParams object handed to validate
    validation,     \* validate: the results of the calls made so far
    regPc,          \* register: position inside registerDomainWithTransaction
    regEnv,         \* register: CONTRACT_ADDRESS and the arguments of the call
    regAbi,         \* register: what getContractABI returned (None before)
    regAbiLoads,    \* register: number of getContractABI calls made
    regSends,       \* register: number of contract.register calls made
    regTx,          \* register: the TransactionResponse obtained (None before)
    regReceipt,     \* register: what tx.wait() resolved with (None before)
    regOutcome,     \* register: the value the promise resolved with
    gasPc,          \* gas: position inside estimateMintingGas
    gasFee,         \* gas: what provider.getFeeData() resolved with (None before)
    gasError,       \* gas: the step that threw, if one did
    gasResult,      \* gas: the value the promise resolved with
    clock,          \* the system clock: what Date.now() answers
    metadata,       \* metadata: the results of the prepareMintMetadata calls
    prepEnv,        \* prepare: NEXT_PUBLIC_CELO_CONTRACT_ADDRESS
    prepBody,       \* prepare: the body of the last POST /api/register
    prepResponse,   \* prepare: the last response sent (None before)
    form,           \* form: the state hooks of RegistrationForm
    formProps,      \* form: the props domain and onSubmit
    formPending,    \* form: the onSubmit calls and the lookups awaited
    formCalls,      \* form: number of onSubmit invocations so far
    formEvent,      \* form: the last handler that ran, with what it saw
    rateConfig,     \* rate limit: the limit and windowMs the callers pass
    requestCounts,  \* rate limit: the Map requestCounts
    rateWindow,     \* rate limit: per key, the calls since its window opened
    rateLast,       \* rate limit: the last call, with what it saw and returned
    cache,          \* cache: the Map cache
    cacheWrites,    \* cache: per key, the last cacheResponse not invalidated
    cacheLast,      \* cache: the last call, with what it saw and returned
    walletEnv,      \* wallet: which providers the window holds
    waitPc,         \* wallet: position inside waitForProvider
    attempts,       \* wallet: waitForProvider's attempts
    waitResult,     \* wallet: the value waitForProvider resolved with
    initPc,         \* wallet: position inside initFarcasterWallet
    retries,        \* wallet: initFarcasterWallet's retries
    initResult,     \* wallet: the value initFarcasterWallet returned
    walletObserved, \* wallet: what each function's checks have observed
    sdkEnv,         \* sdk: the window, its farcaster object and the document
    sdkInitialized, \* sdk: the module variable sdkInitialized
    isInMiniAppContext, \* sdk: the module variable isInMiniAppContext
    sdkListeners,   \* sdk: DOMContentLoaded listeners added and not yet run
    sdkTimers,      \* sdk: setTimeout callbacks scheduled and not yet run
    sdkReadyCalls,  \* sdk: number of sdk.actions.ready() invocations
    sdkInitCalls,   \* sdk: number of initializeFarcasterSDK calls
    acctProvider,   \* account: the provider's accounts, chain and listeners
    acctPending,    \* account: the handleAccountChange runs awaiting the provider
    acctDelivered,  \* account: the values handed to the callback, in order
    acctCleaned,    \* account: unsubscribed, subscribed, or cleaned (cleanup called)
    acctLate,       \* account: callback invocations made after the cleanup
    genInput,       \* domain: the arguments of the last generator call
    genResult,      \* domain: what generateDomainFromUsernameAndFid returned
    gasGet,         \* gas endpoint: the GET /api/gas-estimate answers so far
    offered,        \* session: the post buttons of the presentation on screen
    autoEnv,        \* auto-mint: the autoMint prop, the SDK context and the wallet
    autoHook,       \* auto-mint: the state hooks of useFarcasterAutoMint
    autoPc,         \* auto-mint: position inside autoConnectAndFetch
    autoDeps,       \* auto-mint: the dependencies the effect last ran with
    autoRuns        \* auto-mint: the autoConnectAndFetch calls started so far

frameVars == <<body, currentState, nextState, response>>
validateVars == <<params, validation>>
regVars ==
    <<regPc, regEnv, regAbi, regAbiLoads, regSends, regTx, regReceipt, regOutcome>>
gasVars == <<gasPc, gasFee, gasError, gasResult>>
metaVars == <<clock, metadata>>
prepVars == <<prepEnv, prepBody, prepResponse>>
formVars == <<form, formProps, formPending, formCalls, formEvent>>
rateVars == <<rateConfig, requestCounts, rateWindow, rateLast>>
cacheVars == <<cache, cacheWrites, cacheLast>>
walletVars ==
    <<walletEnv, waitPc, attempts, waitResult, initPc, retries, initResult,
      walletObserved>>
sdkVars ==
    <<sdkEnv, sdkInitialized, isInMiniAppContext, sdkListeners, sdkTimers,
      sdkReadyCalls, sdkInitCalls>>
accountVars ==
    <<acctProvider, acctPending, acctDelivered, acctCleaned, acctLate>>
domainVars == <<genInput, genResult>>
gasGetVars == <<gasGet>>
sessionVars == <<offered>>
autoVars == <<autoEnv, autoHook, autoPc, autoDeps, autoRuns>>
extVars == <<domainVars, gasGetVars, sessionVars, autoVars>>
libVars == <<rateVars, cacheVars, walletVars, sdkVars, accountVars, extVars>>
vars ==
    <<frameVars, validateVars, regVars, gasVars, metaVars, prepVars, formVars,
      libVars>>

None == <<>>
Some(v) == <<v>>
IsSome(o) == Len(o) = 1
Get(o) == o[1]

(***************************************************************************)
(* Bounds of the model.                                                    *)
(***************************************************************************)
MaxFid == 1
MaxButton == 4
MaxDomainLen == 4
MaxValidateCalls == 2

(***************************************************************************)
(* FrameState and the frame state codec (lib/frame-utils).                 *)
(***************************************************************************)
Pages == {"home", "search", "register", "gallery"}

\* The values the untrusted client may put in untrustedData.fid.
FidValues == 1..MaxFid
\* The texts the client may type (inputText) or plant in a token.
Texts == {"", "myname"}

DefaultState ==
    [page |-> "home", userFid |-> None, walletConnected |-> FALSE,
     selectedDomain |-> None]

\* A token is a sequence of <<key, kind, text>> entries: the members of the
\* serialised object, each with the kind of its value and the value's text.
BoolText(b) == IF b THEN "true" ELSE "false"

EncodeFrameState(s) ==
    <<  <<"page", "str", s.page>>  >>
    \o (IF IsSome(s.userFid)
        THEN << <<"userFid", "num", ToString(Get(s.userFid))>> >> ELSE <<>>)
    \o << <<"walletConnected", "bool", BoolText(s.walletConnected)>> >>
    \o (IF IsSome(s.selectedDomain)
        THEN << <<"selectedDomain", "str", Get(s.selectedDomain)>> >> ELSE <<>>)

\* The number a text denotes, if it denotes one of the numbers of the model.
ParseNum(text) ==
    IF \E n \in FidValues : ToString(n) = text
    THEN Some(CHOOSE n \in FidValues : ToString(n) = text)
    ELSE None

\* The entries of token whose key is k, in order.
Members(token, k) == SelectSeq(token, LAMBDA e : e[1] = k)

FrameKeys == <<"page", "userFid", "walletConnected", "selectedDomain">>
IsFrameKey(k) == \E i \in 1..Len(FrameKeys) : FrameKeys[i] = k
KeyRank(k) ==
    IF IsFrameKey(k) THEN CHOOSE i \in 1..Len(FrameKeys) : FrameKeys[i] = k
    ELSE 0

\* The token is the serialisation of one object with the members of a
\* FrameState: known keys only, each at most once, in the order they are
\* written, page and walletConnected present, every value of its type.
WellFormedToken(token) ==
    /\ \A i \in 1..Len(token) :
          /\ IsFrameKey(token[i][1])
          /\ \A j \in 1..Len(token) :
                i < j => KeyRank(token[i][1]) < KeyRank(token[j][1])
    /\ Len(Members(token, "page")) = 1
    /\ Len(Members(token, "walletConnected")) = 1
    /\ \A i \in 1..Len(token) :
          CASE token[i][1] = "page" ->
                  token[i][2] = "str" /\ token[i][3] \in Pages
            [] token[i][1] = "userFid" ->
                  token[i][2] = "num" /\ IsSome(ParseNum(token[i][3]))
            [] token[i][1] = "walletConnected" ->
                  token[i][2] = "bool" /\ token[i][3] \in {"true", "false"}
            [] OTHER -> token[i][2] = "str"
\* ParseFrameState without the check of the decoded object's structure.
ParseFrameStateUnchecked(state) ==
    IF ~IsSome(state) THEN DefaultState
    ELSE IF \/ Len(Members(Get(state), "page")) # 1
            \/ Len(Members(Get(state), "walletConnected")) # 1
         THEN DefaultState
    ELSE LET token == Get(state)
             fid == Members(token, "userFid")
             dom == Members(token, "selectedDomain")
         IN  [page |-> Members(token, "page")[1][3],
              userFid |-> IF fid = <<>> THEN None ELSE ParseNum(fid[1][3]),
              walletConnected |->
                  Members(token, "walletConnected")[1][3] = "true",
              selectedDomain |-> IF dom = <<>> THEN None ELSE Some(dom[1][3])]

ParseFrameState(state) ==
    IF ~IsSome(state) THEN DefaultState
    ELSE IF ~WellFormedToken(Get(state)) THEN DefaultState
    ELSE LET token == Get(state)
             fid == Members(token, "userFid")
             dom == Members(token, "selectedDomain")
         IN  [page |-> Members(token, "page")[1][3],
              userFid |-> IF fid = <<>> THEN None ELSE ParseNum(fid[1][3]),
              walletConnected |->
                  Members(token, "walletConnected")[1][3] = "true",
              selectedDomain |-> IF dom = <<>> THEN None ELSE Some(dom[1][3])]

(***************************************************************************)
(* POST /api/frame.                                                        *)
(***************************************************************************)
baseUrl == "http://localhost:3000"

Button(label, action, target) ==
    [label |-> label, action |-> action, target |-> target]

\* generateFrameImage(title, subtitle): the image descriptor.
GenerateFrameImage(title, subtitle) == <<title, subtitle>>

\* createFrameResponse(...) wrapped by NextResponse.json(...): status 200.
CreateFrameResponse(image, buttons, postUrl, state) ==
    [status |-> 200, image |-> image, buttons |-> buttons,
     postUrl |-> postUrl, state |-> state]

\* JavaScript truthiness of an optional string.
Truthy(text) == IsSome(text) /\ Get(text) # ""
\* SpreadNextState without the member userFid: fid.
SpreadKeepsUserFid(cur, fid) ==
    [cur EXCEPT !.walletConnected = TRUE]

\* let nextState = { ...currentState, userFid: fid, walletConnected: true }
SpreadNextState(cur, fid) ==
    [cur EXCEPT !.userFid = fid, !.walletConnected = TRUE]

Case1(ns) ==
    [state |-> [ns EXCEPT !.page = "search"],
     image |-> GenerateFrameImage("Find Your Domain",
                   "Search for available .farcaster.celo domains"),
     buttons |-> << Button("Back", "post", None),
                    Button("Continue", "post", None) >>]
\* Case2 without the assignment of selectedDomain.
Case2NoDomain(ns, inputText) ==
    IF Truthy(inputText)
    THEN [state |-> [ns EXCEPT !.page = "register"],
          image |-> GenerateFrameImage(
                        "Register " \o Get(inputText) \o ".farcaster.celo",
                        "Complete your domain registration"),
          buttons |-> << Button("Back", "post", None),
                         Button("Register Now", "post", None) >>]
    ELSE [state |-> ns,
          image |-> GenerateFrameImage("Enter Domain Name",
                        "Type your desired domain name"),
          buttons |-> << Button("Back", "post", None),
                         Button("Check Availability", "post", None) >>]

\* Case2 whose else branch moves to the search page.
Case2ToSearch(ns, inputText) ==
    IF Truthy(inputText)
    THEN [state |-> [ns EXCEPT !.page = "register",
                               !.selectedDomain = inputText],
          image |-> GenerateFrameImage(
                        "Register " \o Get(inputText) \o ".farcaster.celo",
                        "Complete your domain registration"),
          buttons |-> << Button("Back", "post", None),
                         Button("Register Now", "post", None) >>]
    ELSE [state |-> [ns EXCEPT !.page = "search"],
          image |-> GenerateFrameImage("Enter Domain Name",
                        "Type your desired domain name"),
          buttons |-> << Button("Back", "post", None),
                         Button("Check Availability", "post", None) >>]

Case2(ns, inputText) ==
    IF Truthy(inputText)
    THEN [state |-> [ns EXCEPT !.page = "register",
                               !.selectedDomain = inputText],
          image |-> GenerateFrameImage(
                        "Register " \o Get(inputText) \o ".farcaster.celo",
                        "Complete your domain registration"),
          buttons |-> << Button("Back", "post", None),
                         Button("Register Now", "post", None) >>]
    ELSE [state |-> ns,
          image |-> GenerateFrameImage("Enter Domain Name",
                        "Type your desired domain name"),
          buttons |-> << Button("Back", "post", None),
                         Button("Check Availability", "post", None) >>]
\* Case3 with a page name that is not a page.
Case3WrongPage(ns) ==
    [state |-> [ns EXCEPT !.page = "domains"],
     image |-> GenerateFrameImage("Your Domains",
                   "View and manage your .farcaster.celo domains"),
     buttons |-> << Button("Back", "post", None),
                    Button("View on OpenSea", "link",
                        Some("https://opensea.io/collection/farcaster-names")) >>]

Case3(ns) ==
    [state |-> [ns EXCEPT !.page = "gallery"],
     image |-> GenerateFrameImage("Your Domains",
                   "View and manage your .farcaster.celo domains"),
     buttons |-> << Button("Back", "post", None),
                    Button("View on OpenSea", "link",
                        Some("https://opensea.io/collection/farcaster-names")) >>]
\* CaseDefault without the assignment of page.
CaseDefaultKeepsPage(ns) ==
    [state |-> ns,
     image |-> GenerateFrameImage("Farcaster Names",
                   "Register .farcaster.celo domains with NFT functionality on Celo mainnet"),
     buttons |-> << Button("Register Domain", "post", None),
                    Button("My Domains", "post", None),
                    Button("Visit App", "link", Some(baseUrl)) >>]

\* CaseDefault that also forgets the selected domain.
CaseDefaultClearsDomain(ns) ==
    [state |-> [ns EXCEPT !.page = "home", !.selectedDomain = None],
     image |-> GenerateFrameImage("Farcaster Names",
                   "Register .farcaster.celo domains with NFT functionality on Celo mainnet"),
     buttons |-> << Button("Register Domain", "post", None),
                    Button("My Domains", "post", None),
                    Button("Visit App", "link", Some(baseUrl)) >>]

\* CaseDefault that leaves the button list empty.
CaseDefaultNoButtons(ns) ==
    [state |-> [ns EXCEPT !.page = "home"],
     image |-> GenerateFrameImage("Farcaster Names",
                   "Register .farcaster.celo domains with NFT functionality on Celo mainnet"),
     buttons |-> <<>>]

CaseDefault(ns) ==
    [state |-> [ns EXCEPT !.page = "home"],
     image |-> GenerateFrameImage("Farcaster Names",
                   "Register .farcaster.celo domains with NFT functionality on Celo mainnet"),
     buttons |-> << Button("Register Domain", "post", None),
                    Button("My Domains", "post", None),
                    Button("Visit App", "link", Some(baseUrl)) >>]
\* SwitchButtonIndex with case 3 missing (it falls to default).
SwitchButtonIndexNoCase3(ns, buttonIndex, inputText) ==
    IF buttonIndex = Some(1) THEN Case1(ns)
    ELSE IF buttonIndex = Some(2) THEN Case2(ns, inputText)
    ELSE CaseDefault(ns)

\* switch (buttonIndex) { case 1 ... case 2 ... case 3 ... default ... }
SwitchButtonIndex(ns, buttonIndex, inputText) ==
    IF buttonIndex = Some(1) THEN Case1(ns)
    ELSE IF buttonIndex = Some(2) THEN Case2(ns, inputText)
    ELSE IF buttonIndex = Some(3) THEN Case3(ns)
    ELSE CaseDefault(ns)
\* The catch block answering with an error status, as the GET handler does.
FallbackResponse500 ==
    [status |-> 500, image |-> <<"", "">>, buttons |-> <<>>,
     postUrl |-> "", state |-> None]

\* The response of the catch block.
FallbackResponse ==
    CreateFrameResponse(
        GenerateFrameImage("Farcaster Names",
            "Register .farcaster.celo domains on Celo mainnet"),
        << Button("Try Again", "post", None),
           Button("Visit App", "link", Some(baseUrl)) >>,
        baseUrl \o "/api/frame",
        None)

\* Request bodies.  kind "invalid": request.json() rejects; "null": the JSON
\* value null, so body.untrustedData throws; "object": an object, whose
\* untrustedData members are read with ?. (all undefined without it).
BadBody(kind) ==
    [kind |-> kind, fid |-> None, buttonIndex |-> None, inputText |-> None,
     state |-> None]

ObjectBody(fid, buttonIndex, inputText, state) ==
    [kind |-> "object", fid |-> fid, buttonIndex |-> buttonIndex,
     inputText |-> inputText, state |-> state]

Opt(S) == {None} \cup {Some(v) : v \in S}

\* Tokens a client can forge instead of returning the one it was sent.
ForgedTokens ==
    { <<>>,
      << <<"page", "str", "search">> >>,
      << <<"walletConnected", "bool", "true">> >>,
      << <<"page", "str", "admin">>, <<"walletConnected", "bool", "true">> >>,
      << <<"page", "num", "1">>, <<"walletConnected", "bool", "true">> >>,
      << <<"page", "str", "home">>, <<"userFid", "num", "abc">>,
         <<"walletConnected", "bool", "true">> >>,
      << <<"page", "str", "home">>, <<"walletConnected", "bool", "yes">> >>,
      << <<"page", "str", "home">>, <<"walletConnected", "bool", "false">>,
         <<"admin", "bool", "true">> >>,
      << <<"page", "str", "home">>, <<"page", "str", "search">>,
         <<"walletConnected", "bool", "false">> >>,
      << <<"walletConnected", "bool", "false">>, <<"page", "str", "home">> >>,
      EncodeFrameState(DefaultState),
      EncodeFrameState([page |-> "register", userFid |-> Some(MaxFid),
                        walletConnected |-> FALSE,
                        selectedDomain |-> Some("")]),
      EncodeFrameState([page |-> "gallery", userFid |-> None,
                        walletConnected |-> TRUE,
                        selectedDomain |-> Some("other")]) }

FrameInit ==
    /\ body = BadBody("none")
    /\ currentState = DefaultState
    /\ nextState = DefaultState
    /\ response = None

\* export async function POST(request): the try block, and the catch block
\* when request.json() or the read of body.untrustedData throws.
FramePOST(b) ==
    /\ body' = b
    /\ IF b.kind = "object"
       THEN /\ currentState' = ParseFrameState(b.state)
            /\ LET out == SwitchButtonIndex(
                              SpreadNextState(currentState', b.fid),
                              b.buttonIndex, b.inputText)
               IN  /\ nextState' = out.state
                   /\ response' =
                         Some(CreateFrameResponse(out.image, out.buttons,
                                  baseUrl \o "/api/frame",
                                  Some(EncodeFrameState(nextState'))))
       ELSE /\ response' = Some(FallbackResponse)
            /\ UNCHANGED <<currentState, nextState>>

\* What a client may send next: malformed JSON, null, or an object with any
\* fid, button and text, and as state nothing, the token of the last
\* response, or a forged token.
Bodies ==
    {BadBody("invalid"), BadBody("null")}
    \cup { ObjectBody(f, bi, t, st) :
             f \in Opt(FidValues), bi \in Opt(1..MaxButton), t \in Opt(Texts),
             st \in {None} \cup Opt(ForgedTokens)
                    \cup (IF IsSome(response) THEN {Get(response).state}
                          ELSE {}) }

FrameRequest ==
    /\ \E b \in Bodies : FramePOST(b)
    /\ UNCHANGED <<validateVars, regVars, gasVars, metaVars, prepVars, formVars, libVars>>

(***************************************************************************)
(* MintingParams and validateMintingParams (lib/minting-service.ts).       *)
(* domain and walletAddress are sequences of characters; the other strings *)
(* are only tested for emptiness.                                          *)
(***************************************************************************)
Rep(c, n) == [i \in 1..n |-> c]

HexChars == {"0", "1", "9", "a", "f"}
AddrHexLen == 40

\* ethers.isAddress on strings of lower-case characters: forty hexadecimal
\* digits with or without the 0x prefix.  (Mixed-case checksummed and ICAP
\* addresses are not among the inputs of the model.)
IsAddress(a) ==
    LET hex == IF Len(a) >= 2 /\ a[1] = "0" /\ a[2] = "x"
               THEN SubSeq(a, 3, Len(a)) ELSE a
    IN  /\ Len(hex) = AddrHexLen
        /\ \A i \in 1..Len(hex) : hex[i] \in HexChars

ValidAddress == <<"0", "x">> \o Rep("a", AddrHexLen)

WalletAddresses ==
    { <<>>,
      <<"0", "x">>,
      ValidAddress,
      Rep("f", AddrHexLen),
      <<"0", "x">> \o Rep("a", AddrHexLen - 1),
      <<"0", "x">> \o Rep("a", AddrHexLen + 1),
      <<"0", "x">> \o Rep("a", AddrHexLen - 1) \o <<"g">> }

DomainChars == {"a", "_"}
Domains == UNION { [1..n -> DomainChars] : n \in 0..MaxDomainLen }

MintingParams ==
    [domain : Domains, bio : {"", "hi"}, socialLinks : {None},
     farcasterUsername : {"", "alice"}, fid : (-1)..MaxFid,
     walletAddress : WalletAddresses, metadataURI : {"", "/x"}]
\* ValidateMintingParams that returns at the first violated rule.
ValidateFirstErrorOnly(p) ==
    LET e == IF Len(p.domain) = 0 \/ Len(p.domain) < 3
                THEN <<"Domain must be at least 3 characters">>
             ELSE IF p.fid = 0 \/ p.fid <= 0
                THEN <<"Valid FID is required">>
             ELSE IF p.farcasterUsername = ""
                THEN <<"Farcaster username is required">>
             ELSE IF Len(p.walletAddress) = 0 \/ ~IsAddress(p.walletAddress)
                THEN <<"Valid wallet address is required">>
             ELSE IF p.bio = ""
                THEN <<"Bio is required">>
             ELSE IF p.metadataURI = ""
                THEN <<"Metadata URI is required">>
             ELSE <<>>
    IN  [isValid |-> Len(e) = 0, errors |-> e]

\* const errors = []; six tests, each pushing one message; the result.
ValidateMintingParams(p) ==
    LET e1 == IF Len(p.domain) = 0 \/ Len(p.domain) < 3
              THEN <<"Domain must be at least 3 characters">> ELSE <<>>
        e2 == IF p.fid = 0 \/ p.fid <= 0
              THEN Append(e1, "Valid FID is required") ELSE e1
        e3 == IF p.farcasterUsername = ""
              THEN Append(e2, "Farcaster username is required") ELSE e2
        e4 == IF Len(p.walletAddress) = 0 \/ ~IsAddress(p.walletAddress)
              THEN Append(e3, "Valid wallet address is required") ELSE e3
        e5 == IF p.bio = "" \/ Len(p.bio) < 1
              THEN Append(e4, "Bio is required") ELSE e4
        e6 == IF p.metadataURI = ""
              THEN Append(e5, "Metadata URI is required") ELSE e5
    IN  [isValid |-> Len(e6) = 0, errors |-> e6]

(***************************************************************************)
(* validateDomainNameFormat (lib/domain-generator.ts).                     *)
(***************************************************************************)
MaxDomainNameLength == 63

\* The characters of the class [a-z0-9-]
SafeChars ==
    {"a", "b", "c", "d", "e", "f", "g", "h", "i", "j", "k", "l", "m", "n",
     "o", "p", "q", "r", "s", "t", "u", "v", "w", "x", "y", "z",
     "0", "1", "2", "3", "4", "5", "6", "7", "8", "9", "-"}

DomainFormat(isValid, error) == [isValid |-> isValid, error |-> error]

ValidateDomainNameFormat(domain) ==
    IF Len(domain) = 0
        THEN DomainFormat(FALSE, Some("Domain name is required"))
    ELSE IF Len(domain) < 3
        THEN DomainFormat(FALSE, Some("Domain must be at least 3 characters"))
    ELSE IF Len(domain) > MaxDomainNameLength
        THEN DomainFormat(FALSE, Some("Domain must be at most 63 characters"))
    ELSE IF \E i \in 1..Len(domain) : domain[i] \notin SafeChars
        THEN DomainFormat(FALSE, Some(
            "Domain can only contain lowercase letters, numbers, and hyphens"))
    ELSE IF domain[1] = "-" \/ domain[Len(domain)] = "-"
        THEN DomainFormat(FALSE, Some("Domain cannot start or end with a hyphen"))
    ELSE IF \E i \in 1..(Len(domain) - 1) : domain[i] = "-" /\ domain[i + 1] = "-"
        THEN DomainFormat(FALSE, Some("Domain cannot contain consecutive hyphens"))
    ELSE DomainFormat(TRUE, None)

SampleParams ==
    [domain |-> <<"a", "a", "a">>, bio |-> "hi", socialLinks |-> None,
     farcasterUsername |-> "alice", fid |-> 1, walletAddress |-> ValidAddress,
     metadataURI |-> "/x"]

\* The rest state of a component that is not exercised.
NoParams ==
    [domain |-> <<>>, bio |-> "", socialLinks |-> None,
     farcasterUsername |-> "", fid |-> 0, walletAddress |-> <<>>,
     metadataURI |-> ""]

ValidateIdle ==
    /\ params = NoParams
    /\ validation = <<>>

ValidateInit ==
    /\ params \in MintingParams
    /\ validation = <<>>

\* One call validateMintingParams(params); params is only read.
ValidateCall ==
    /\ Len(validation) < MaxValidateCalls
    /\ validation' = Append(validation, ValidateMintingParams(params))
    /\ params' = params
    /\ UNCHANGED <<frameVars, regVars, gasVars, metaVars, prepVars, formVars, libVars>>

(***************************************************************************)
(* registerDomainWithTransaction (lib/minting-service.ts): one invocation, *)
(* a step per await.  What the collaborators (the ABI file, the signer,    *)
(* the network) answer is chosen at each step.                             *)
(***************************************************************************)
ContractAddresses == {"", "0xC0DE"}
TxHashes == {"0xh1", "0xh2"}
SendErrors == {"user rejected transaction", "insufficient funds"}
WaitErrors == {"transaction replaced", "network timeout"}

\* What a rejected await rejects with: an Error with a message, or a value
\* that is no Error.
Thrown(messages) ==
    {[isError |-> TRUE, message |-> m] : m \in messages}
    \cup {[isError |-> FALSE, message |-> "rejected"]}

\* The receipts tx.wait() can resolve with: null, or a receipt with status.
Receipts ==
    {None} \cup {Some([status |-> st, blockNumber |-> 7, gasUsed |-> 21000]) :
                     st \in {0, 1}}

Outcome(success, transactionHash, error, receipt) ==
    [success |-> success, transactionHash |-> transactionHash,
     error |-> error, receipt |-> receipt]
\* CatchOutcome that also reports the hash of the transaction, if one was sent.
CatchOutcomeWithHash(error) ==
    Outcome(FALSE, IF IsSome(regTx) THEN Some(Get(regTx).hash) ELSE None,
            Some(IF error.isError THEN error.message ELSE "Unknown error"),
            None)

\* catch (error) { ... return { success: false, error: errorMsg } }
CatchOutcome(error) ==
    Outcome(FALSE, None,
            Some(IF error.isError THEN error.message ELSE "Unknown error"),
            None)

\* return { success: true, transactionHash: tx.hash, receipt: {...} }
SuccessOutcome(tx, receipt) ==
    Outcome(TRUE, Some(tx.hash), None,
            Some([blockNumber |-> receipt.blockNumber,
                  gasUsed |-> ToString(receipt.gasUsed),
                  status |-> "success"]))

RegParams ==
    { SampleParams,
      [SampleParams EXCEPT !.domain = <<"a", "_", "a", "a">>, !.fid = MaxFid],
      [SampleParams EXCEPT !.bio = "", !.metadataURI = ""],
      [SampleParams EXCEPT !.walletAddress = <<"0", "x">>] }

RegIdle ==
    /\ regPc = "idle"
    /\ regEnv = [CONTRACT_ADDRESS |-> "", params |-> NoParams]
    /\ regAbi = None
    /\ regAbiLoads = 0
    /\ regSends = 0
    /\ regTx = None
    /\ regReceipt = None
    /\ regOutcome = None

RegInit ==
    /\ regPc = "idle"
    /\ regEnv \in [CONTRACT_ADDRESS : ContractAddresses, params : RegParams]
    /\ regAbi = None
    /\ regAbiLoads = 0
    /\ regSends = 0
    /\ regTx = None
    /\ regReceipt = None
    /\ regOutcome = None

\* RegEnter without the test of CONTRACT_ADDRESS.
RegEnterUnchecked ==
    /\ regPc = "idle"
    /\ regPc' = "abi"
    /\ UNCHANGED regOutcome
    /\ UNCHANGED <<frameVars, validateVars, gasVars, metaVars, prepVars, formVars, libVars>>
    /\ UNCHANGED <<regEnv, regAbi, regAbiLoads, regSends, regTx, regReceipt>>

\* Entry up to the first await: if (!CONTRACT_ADDRESS) throw ...
RegEnter ==
    /\ regPc = "idle"
    /\ IF regEnv.CONTRACT_ADDRESS = ""
       THEN /\ regOutcome' = Some(CatchOutcome(
                   [isError |-> TRUE,
                    message |-> "Contract address not configured"]))
            /\ regPc' = "done"
       ELSE /\ regPc' = "abi"
            /\ UNCHANGED regOutcome
    /\ UNCHANGED <<frameVars, validateVars, gasVars, metaVars, prepVars, formVars, libVars>>
    /\ UNCHANGED <<regEnv, regAbi, regAbiLoads, regSends, regTx, regReceipt>>

\* const abi = await getContractABI(); new ethers.Contract(..., abi, signer).
\* getContractABI never rejects: it answers the file's abi member or, when
\* the fetch fails, the minimal ABI.  An abi member that is no ABI makes the
\* Contract constructor throw.
RegLoadABI(abi) ==
    /\ regPc = "abi"
    /\ regAbi' = Some(abi)
    /\ regAbiLoads' = regAbiLoads + 1
    /\ IF abi = "malformed"
       THEN /\ regOutcome' = Some(CatchOutcome(
                   [isError |-> TRUE, message |-> "invalid fragments"]))
            /\ regPc' = "done"
       ELSE /\ regPc' = "send"
            /\ UNCHANGED regOutcome
    /\ UNCHANGED <<frameVars, validateVars, gasVars, metaVars, prepVars, formVars, libVars>>
    /\ UNCHANGED <<regEnv, regSends, regTx, regReceipt>>

\* const tx = await contract.register(...): resolves with the transaction.
RegSendResolves(hash) ==
    /\ regPc = "send"
    /\ regSends' = regSends + 1
    /\ regTx' = Some([hash |-> hash])
    /\ regPc' = "wait"
    /\ UNCHANGED <<frameVars, validateVars, gasVars, metaVars, prepVars, formVars, libVars>>
    /\ UNCHANGED <<regEnv, regAbi, regAbiLoads, regReceipt, regOutcome>>

\* RegSendRejects that sends the transaction again after a first rejection.
RegSendRejectsResends(error) ==
    /\ regPc = "send"
    /\ regSends' = regSends + 1
    /\ IF regSends = 0
       THEN UNCHANGED <<regPc, regOutcome>>
       ELSE /\ regOutcome' = Some(CatchOutcome(error))
            /\ regPc' = "done"
    /\ UNCHANGED <<frameVars, validateVars, gasVars, metaVars, prepVars, formVars, libVars>>
    /\ UNCHANGED <<regEnv, regAbi, regAbiLoads, regTx, regReceipt>>

\* const tx = await contract.register(...): rejects.
RegSendRejects(error) ==
    /\ regPc = "send"
    /\ regSends' = regSends + 1
    /\ regOutcome' = Some(CatchOutcome(error))
    /\ regPc' = "done"
    /\ UNCHANGED <<frameVars, validateVars, gasVars, metaVars, prepVars, formVars, libVars>>
    /\ UNCHANGED <<regEnv, regAbi, regAbiLoads, regTx, regReceipt>>
\* RegWaitResolves that tests only that there is a receipt, not its status.
RegWaitIgnoresStatus(receipt) ==
    /\ regPc = "wait"
    /\ regReceipt' = Some(receipt)
    /\ regOutcome' =
          IF IsSome(receipt)
          THEN Some(SuccessOutcome(Get(regTx), Get(receipt)))
          ELSE Some(CatchOutcome(
                   [isError |-> TRUE,
                    message |-> "Transaction failed or was reverted"]))
    /\ regPc' = "done"
    /\ UNCHANGED <<frameVars, validateVars, gasVars, metaVars, prepVars, formVars, libVars>>
    /\ UNCHANGED <<regEnv, regAbi, regAbiLoads, regSends, regTx>>

\* const receipt = await tx.wait(): resolves; if (receipt && receipt.status
\* === 1) return success, else throw new Error('Transaction failed ...').
RegWaitResolves(receipt) ==
    /\ regPc = "wait"
    /\ regReceipt' = Some(receipt)
    /\ regOutcome' =
          IF IsSome(receipt) /\ Get(receipt).status = 1
          THEN Some(SuccessOutcome(Get(regTx), Get(receipt)))
          ELSE Some(CatchOutcome(
                   [isError |-> TRUE,
                    message |-> "Transaction failed or was reverted"]))
    /\ regPc' = "done"
    /\ UNCHANGED <<frameVars, validateVars, gasVars, metaVars, prepVars, formVars, libVars>>
    /\ UNCHANGED <<regEnv, regAbi, regAbiLoads, regSends, regTx>>

\* const receipt = await tx.wait(): rejects.
RegWaitRejects(error) ==
    /\ regPc = "wait"
    /\ regOutcome' = Some(CatchOutcome(error))
    /\ regPc' = "done"
    /\ UNCHANGED <<frameVars, validateVars, gasVars, metaVars, prepVars, formVars, libVars>>
    /\ UNCHANGED <<regEnv, regAbi, regAbiLoads, regSends, regTx, regReceipt>>

(***************************************************************************)
(* estimateMintingGas (lib/minting-service.ts): one invocation, a step per *)
(* await.  Amounts are counted in gwei (10^9 wei): the gas prices of the   *)
(* model are whole numbers of gwei.                                        *)
(***************************************************************************)
MaxGasGwei == 25
estimatedGasUnits == 150000
GweiPerEther == 1000000000

GasPrices == 0..MaxGasGwei

RECURSIVE Zeros(_)
Zeros(k) == IF k <= 0 THEN "" ELSE "0" \o Zeros(k - 1)

\* The decimal text of n written with `width` digits.
Padded(n, width) == Zeros(width - Len(ToString(n))) \o ToString(n)

\* The digits after the point: n of `width` digits, trailing zeros removed,
\* one digit at least.
RECURSIVE FractionText(_, _)
FractionText(n, width) ==
    IF n = 0 THEN "0"
    ELSE IF n % 10 = 0 THEN FractionText(n \div 10, width - 1)
    ELSE Padded(n, width)

\* bigint.toString() of an amount of wei that is g gwei.
WeiText(g) == IF g = 0 THEN "0" ELSE ToString(g) \o "000000000"

\* ethers.formatEther of an amount of wei that is g gwei.
FormatEther(g) ==
    ToString(g \div GweiPerEther) \o "." \o FractionText(g % GweiPerEther, 9)

\* (parseFloat(cost) * 2.0).toFixed(4) for a cost of g gwei: 2g * 10^-9
\* rounded to four decimals.
CostUSDText(g) ==
    LET q == (2 * g + 50000) \div 100000
    IN  ToString(q \div 10000) \o "." \o Padded(q % 10000, 4)

\* Estimate with the cost of one gas unit in place of the cost of all.
EstimateOneUnit(gasPrice) ==
    [estimatedGas |-> ToString(estimatedGasUnits),
     gasPrice |-> WeiText(gasPrice),
     estimatedCost |-> FormatEther(gasPrice),
     estimatedCostUSD |-> CostUSDText(gasPrice)]

\* The return statement of the try block.
Estimate(gasPrice) ==
    [estimatedGas |-> ToString(estimatedGasUnits),
     gasPrice |-> WeiText(gasPrice),
     estimatedCost |-> FormatEther(gasPrice * estimatedGasUnits),
     estimatedCostUSD |-> CostUSDText(gasPrice * estimatedGasUnits)]

\* The return statement of the catch block.
FallbackEstimate ==
    [estimatedGas |-> "150000",
     gasPrice |-> WeiText(1),
     estimatedCost |-> "0.00015",
     estimatedCostUSD |-> "0.30"]

GasIdle ==
    /\ gasPc = "idle"
    /\ gasFee = None
    /\ gasError = None
    /\ gasResult = None

\* new ethers.JsonRpcProvider(...): it is constructed, or it throws.
GasEnter(constructed) ==
    /\ gasPc = "idle"
    /\ IF constructed
       THEN /\ gasPc' = "fee"
            /\ UNCHANGED <<gasError, gasResult>>
       ELSE /\ gasPc' = "done"
            /\ gasError' = Some("provider")
            /\ gasResult' = Some(FallbackEstimate)
    /\ UNCHANGED gasFee
    /\ UNCHANGED <<frameVars, validateVars, regVars, metaVars, prepVars, formVars, libVars>>

\* const feeData = await provider.getFeeData(): resolves; feeData.gasPrice is
\* null or a price, and a null or zero price is replaced by 1 gwei.
GasFeeDataResolves(gasPrice) ==
    /\ gasPc = "fee"
    /\ gasFee' = Some(gasPrice)
    /\ gasResult' = Some(Estimate(IF IsSome(gasPrice) /\ Get(gasPrice) # 0
                                  THEN Get(gasPrice) ELSE 1))
    /\ gasPc' = "done"
    /\ UNCHANGED gasError
    /\ UNCHANGED <<frameVars, validateVars, regVars, metaVars, prepVars, formVars, libVars>>

\* GasFeeDataRejects outside the try block: the rejection reaches the caller.
GasFeeDataRejectsUncaught ==
    /\ gasPc = "fee"
    /\ gasError' = Some("feeData")
    /\ gasPc' = "rejected"
    /\ UNCHANGED <<gasFee, gasResult>>
    /\ UNCHANGED <<frameVars, validateVars, regVars, metaVars, prepVars, formVars, libVars>>

\* const feeData = await provider.getFeeData(): rejects.
GasFeeDataRejects ==
    /\ gasPc = "fee"
    /\ gasError' = Some("feeData")
    /\ gasResult' = Some(FallbackEstimate)
    /\ gasPc' = "done"
    /\ UNCHANGED gasFee
    /\ UNCHANGED <<frameVars, validateVars, regVars, metaVars, prepVars, formVars, libVars>>

(***************************************************************************)
(* The clock.  A time is a record of a day number and the milliseconds of  *)
(* that day; toISOString() writes the date and the time of day.            *)
(***************************************************************************)
MaxClockMs == 2
TermDays == 365

Time(day, ms) == [day |-> day, ms |-> ms]

\* new Date(t).toISOString()
ToISOString(t) == <<"date", t.day, "time", t.ms>>

\* t + 365 * 24 * 60 * 60 * 1000
PlusTerm(t) == Time(t.day + TermDays, t.ms)

\* The clock e milliseconds later.
Later(t, e) == Time(t.day, t.ms + e)

\* How far the clock can advance between two readings within the model.
Elapsed == 0..(MaxClockMs - clock.ms)

(***************************************************************************)
(* prepareMintMetadata (lib/minting-service.ts).                           *)
(***************************************************************************)
MaxMetaCalls == 2

Suffix == <<".farcaster.celo">>

Attribute(trait_type, value) == [trait_type |-> trait_type, value |-> value]

\* PrepareMintMetadata with the attributes Owner and Farcaster ID exchanged.
PrepareMintMetadataReordered(p, now1, now2) ==
    [name |-> p.domain \o Suffix,
     description |-> "Farcaster domain owned by @" \o p.farcasterUsername
                     \o " (FID: " \o ToString(p.fid) \o ")",
     attributes |->
        << Attribute("Domain", p.domain \o Suffix),
           Attribute("Farcaster Username", <<p.farcasterUsername>>),
           Attribute("Owner", p.walletAddress),
           Attribute("Farcaster ID", <<ToString(p.fid)>>),
           Attribute("Bio", <<p.bio>>) >>,
     registered_at |-> ToISOString(now1),
     expires_at |-> ToISOString(PlusTerm(now2))]

\* The object returned; now1 and now2 are what the clock reads at
\* new Date() and, after it, at Date.now().
PrepareMintMetadata(p, now1, now2) ==
    [name |-> p.domain \o Suffix,
     description |-> "Farcaster domain owned by @" \o p.farcasterUsername
                     \o " (FID: " \o ToString(p.fid) \o ")",
     attributes |->
        << Attribute("Domain", p.domain \o Suffix),
           Attribute("Farcaster Username", <<p.farcasterUsername>>),
           Attribute("Farcaster ID", <<ToString(p.fid)>>),
           Attribute("Owner", p.walletAddress),
           Attribute("Bio", <<p.bio>>) >>,
     registered_at |-> ToISOString(now1),
     expires_at |-> ToISOString(PlusTerm(now2))]

MetaIdle ==
    /\ clock = Time(0, 0)
    /\ metadata = <<>>

MetaInit ==
    /\ clock \in {Time(d, 0) : d \in 0..1}
    /\ metadata = <<>>

\* Time passes between calls.
ClockTick ==
    /\ clock.ms < MaxClockMs
    /\ clock' = Later(clock, 1)
    /\ UNCHANGED metadata
    /\ UNCHANGED <<frameVars, validateVars, regVars, gasVars, prepVars, formVars, libVars>>

\* One call prepareMintMetadata(params): the clock is read twice, and may
\* have advanced between the two readings.
MetaCall ==
    /\ Len(metadata) < MaxMetaCalls
    /\ \E e \in Elapsed :
          /\ metadata' = Append(metadata,
                 [at |-> clock,
                  result |-> PrepareMintMetadata(params, clock, Later(clock, e))])
          /\ clock' = Later(clock, e)
    /\ UNCHANGED <<frameVars, validateVars, regVars, gasVars, prepVars, formVars, libVars>>

(***************************************************************************)
(* POST /register (app/frame.tsx): prepares the registration payload.      *)
(***************************************************************************)
DefaultChainId == 42220
DefaultRpcUrl == "https://forno.celo.org"
DefaultBaseUrl == "https://farcaster-names.example.com"

\* process.env.NEXT_PUBLIC_CELO_CONTRACT_ADDRESS: unset, empty or set.
PrepEnvs == [NEXT_PUBLIC_CELO_CONTRACT_ADDRESS : Opt(ContractAddresses)]

\* The bodies request.json() can yield: it rejects ("invalid"), or it
\* resolves to null or to an object with each member present or not.
RegisterBodies ==
    { [kind |-> k, domain |-> None, farcasterUsername |-> None,
       walletAddress |-> None, fid |-> None, bio |-> None,
       socialLinks |-> None, metadataURI |-> None] : k \in {"invalid", "null"} }
    \cup
    [kind : {"object"},
     domain : Opt({<<>>, <<"a", "a", "a">>}),
     farcasterUsername : Opt({"alice"}),
     walletAddress : Opt({<<"0", "x">>, ValidAddress}),
     fid : Opt((-1)..MaxFid),
     bio : Opt({"hi"}),
     socialLinks : {None},
     metadataURI : Opt({"/x"})]

\* !x for an optional string held as a sequence of characters
Falsy(x) == ~IsSome(x) \/ Len(Get(x)) = 0

\* !x for an optional string
FalsyText(x) == ~IsSome(x) \/ Get(x) = ""

\* !x for an optional number
FalsyNum(x) == ~IsSome(x) \/ Get(x) = 0

PrepResponse(status, error, payload) ==
    [status |-> status, error |-> error, payload |-> payload]

\* The object answered with status 200; t1, t2 and t3 are what the clock
\* reads at registeredAt, at expiresAt and at timestamp.
RegistrationPayload(b, contract, t1, t2, t3) ==
    LET domain == Get(b.domain)
        fullDomain == domain \o Suffix
        username == Get(b.farcasterUsername)
        fid == Get(b.fid)
    IN  [success |-> TRUE,
         registration |->
            [domain |-> fullDomain,
             owner |-> Get(b.walletAddress),
             farcasterUsername |-> username,
             fid |-> fid,
             bio |-> b.bio,
             socialLinks |-> IF FalsyText(b.socialLinks) THEN ""
                             ELSE Get(b.socialLinks),
             registeredAt |-> ToISOString(t1),
             expiresAt |-> ToISOString(PlusTerm(t2)),
             metadataURI |-> IF FalsyText(b.metadataURI)
                             THEN <<"/api/metadata/">> \o domain
                             ELSE <<Get(b.metadataURI)>>,
             nftMetadata |->
                [name |-> fullDomain,
                 description |-> <<"Farcaster domain ">> \o fullDomain
                     \o <<" owned by @" \o username \o " (FID: "
                          \o ToString(fid) \o ") on Celo mainnet">>,
                 external_url |->
                     "https://opensea.io/collection/farcaster-celo-domains",
                 image |-> <<DefaultBaseUrl \o "/api/frame-image?domain=">>
                     \o domain \o <<"&fid=" \o ToString(fid)>>,
                 attributes |->
                    << Attribute("Domain", fullDomain),
                       Attribute("Farcaster Username", <<username>>),
                       Attribute("Farcaster ID", <<ToString(fid)>>),
                       Attribute("Owner", Get(b.walletAddress)),
                       Attribute("Bio", b.bio) >>]],
         contractAddress |-> contract,
         chainId |-> DefaultChainId,
         rpcUrl |-> DefaultRpcUrl,
         timestamp |-> ToISOString(t3),
         message |-> "Prepare to sign transaction with your wallet"]

\* PrepRejection that answers 200 when the contract address is not set.
PrepRejectionNoContractCheck(b, contract) ==
    IF b.kind # "object"
        THEN Some(PrepResponse(500, Some("Registration preparation failed"), None))
    ELSE IF Falsy(b.domain) \/ FalsyText(b.farcasterUsername)
            \/ Falsy(b.walletAddress)
        THEN Some(PrepResponse(400, Some("Missing required fields"), None))
    ELSE IF ~IsAddress(Get(b.walletAddress))
        THEN Some(PrepResponse(400, Some("Invalid wallet address"), None))
    ELSE IF FalsyNum(b.fid) \/ Get(b.fid) <= 0
        THEN Some(PrepResponse(400, Some("Invalid Farcaster ID"), None))
    ELSE None

\* The checks made before the payload is built: the response they end
\* with, or None when all of them pass.
PrepRejection(b, contract) ==
    IF b.kind # "object"
        THEN Some(PrepResponse(500, Some("Registration preparation failed"), None))
    ELSE IF Falsy(b.domain) \/ FalsyText(b.farcasterUsername)
            \/ Falsy(b.walletAddress)
        THEN Some(PrepResponse(400, Some("Missing required fields"), None))
    ELSE IF ~IsAddress(Get(b.walletAddress))
        THEN Some(PrepResponse(400, Some("Invalid wallet address"), None))
    ELSE IF FalsyNum(b.fid) \/ Get(b.fid) <= 0
        THEN Some(PrepResponse(400, Some("Invalid Farcaster ID"), None))
    ELSE IF contract = ""
        THEN Some(PrepResponse(500, Some("Contract not configured"), None))
    ELSE None

PrepIdle ==
    /\ prepEnv = [NEXT_PUBLIC_CELO_CONTRACT_ADDRESS |-> None]
    /\ prepBody = None
    /\ prepResponse = None

PrepInit ==
    /\ prepEnv \in PrepEnvs
    /\ prepBody = None
    /\ prepResponse = None

\* One request POST /register with body b.
RegisterPOST(b) ==
    LET contract == IF FalsyText(prepEnv.NEXT_PUBLIC_CELO_CONTRACT_ADDRESS)
                    THEN ""
                    ELSE Get(prepEnv.NEXT_PUBLIC_CELO_CONTRACT_ADDRESS)
        rejection == PrepRejection(b, contract)
    IN  /\ prepBody' = Some(b)
        /\ IF IsSome(rejection)
           THEN /\ prepResponse' = rejection
                /\ UNCHANGED clock
           ELSE \E e1 \in Elapsed :
                \E e2 \in 0..(MaxClockMs - clock.ms - e1) :
                   /\ prepResponse' = Some(PrepResponse(200, None,
                          Some(RegistrationPayload(b, contract, clock,
                                   Later(clock, e1), Later(clock, e1 + e2)))))
                   /\ clock' = Later(clock, e1 + e2)
        /\ UNCHANGED <<prepEnv, metadata>>
        /\ UNCHANGED <<frameVars, validateVars, regVars, gasVars, formVars, libVars>>

RegisterRequest == \E b \in RegisterBodies : RegisterPOST(b)

(***************************************************************************)
(* RegistrationForm (components/RegistrationForm.tsx).  Texts are          *)
(* sequences of characters.  form holds the useState values bio,           *)
(* socialLinks, farcasterUsername, farcasterFid, loading, error, success,  *)
(* txHash and fetchingUserData.                                            *)
(***************************************************************************)
MaxSubmits == 2
MaxLookups == 1

RECURSIVE TrimStart(_)
TrimStart(t) == IF Len(t) > 0 /\ Head(t) = " " THEN TrimStart(Tail(t)) ELSE t

RECURSIVE TrimEnd(_)
TrimEnd(t) ==
    IF Len(t) > 0 /\ t[Len(t)] = " " THEN TrimEnd(SubSeq(t, 1, Len(t) - 1))
    ELSE t

\* String.prototype.trim
Trim(t) == TrimEnd(TrimStart(t))

Bob == <<"b", "o", "b">>

\* What the user can type into the fields.
BioTexts == {<<>>, <<" ">>, <<"h", "i">>}
LinkTexts == {<<>>, <<"x">>}
UsernameTexts == {<<>>, <<" ">>, Bob}
FidInputs == {""} \cup {ToString(n) : n \in (-1)..MaxFid}

\* parseInt(text) for the texts of FidInputs that are not empty
ParseInt(text) == CHOOSE n \in (-1)..MaxFid : ToString(n) = text

\* What await getAuthenticatedUserInfo(fid) ends with: it rejects, or it
\* resolves to null or to a user whose profile has a bio text or none.
LookupOutcomes ==
    {[kind |-> k, username |-> <<>>, bio |-> None] : k \in {"throws", "null"}}
    \cup [kind : {"user"}, username : {Bob}, bio : Opt({<<"h", "i">>})]

\* What a rejected onSubmit rejects with.
SubmitErrors == Thrown({"insufficient funds", "user rejected transaction"})

Fields(f) ==
    [bio |-> f.bio, socialLinks |-> f.socialLinks,
     farcasterUsername |-> f.farcasterUsername,
     farcasterFid |-> f.farcasterFid]

InitialForm ==
    [bio |-> <<>>, socialLinks |-> <<>>, farcasterUsername |-> <<>>,
     farcasterFid |-> None, loading |-> FALSE, error |-> None,
     success |-> FALSE, txHash |-> None, fetchingUserData |-> FALSE]

\* The last thing that happened to the form; for the steps of handleSubmit,
\* with the fields and the number of onSubmit calls just before the step
\* and with what onSubmit rejected with.
Quiet(kind) ==
    [kind |-> kind, fields |-> Fields(InitialForm), calls |-> 0,
     thrown |-> None]

NoEvent == Quiet("none")

Event(kind, thrown) ==
    [kind |-> kind, fields |-> Fields(form), calls |-> formCalls,
     thrown |-> thrown]

NothingPending == [submit |-> None, lookups |-> {}]

FormProperties ==
    [domain : {<<"a", "a", "a">>}, onSubmit : BOOLEAN,
     walletAddress : {ValidAddress}]

FormIdle ==
    /\ form = InitialForm
    /\ formProps = [domain |-> <<>>, onSubmit |-> FALSE, walletAddress |-> <<>>]
    /\ formPending = NothingPending
    /\ formCalls = 0
    /\ formEvent = NoEvent

FormInit ==
    /\ form = InitialForm
    /\ formProps \in FormProperties
    /\ formPending = NothingPending
    /\ formCalls = 0
    /\ formEvent = NoEvent

\* The form is rendered, not the ShareMint card.
FormShown == ~form.success

\* onChange of the bio textarea: setBio(e.target.value)
SetBio(text) ==
    /\ FormShown /\ ~form.loading
    /\ form' = [form EXCEPT !.bio = text]
    /\ formEvent' = Quiet("edit")
    /\ UNCHANGED <<formProps, formPending, formCalls>>
    /\ UNCHANGED <<frameVars, validateVars, regVars, gasVars, metaVars, prepVars, libVars>>

\* onChange of the social links input: setSocialLinks(e.target.value)
SetSocialLinks(text) ==
    /\ FormShown /\ ~form.loading
    /\ form' = [form EXCEPT !.socialLinks = text]
    /\ formEvent' = Quiet("edit")
    /\ UNCHANGED <<formProps, formPending, formCalls>>
    /\ UNCHANGED <<frameVars, validateVars, regVars, gasVars, metaVars, prepVars, libVars>>

\* handleUsernameChange up to its await
HandleUsernameChange(username) ==
    /\ FormShown /\ ~form.loading
    /\ IF Len(username) >= 3
       THEN /\ Cardinality(formPending.lookups) < MaxLookups
            /\ form' = [form EXCEPT !.farcasterUsername = username,
                                    !.fetchingUserData = TRUE]
            /\ formPending' = [formPending EXCEPT !.lookups =
                   @ \cup {[by |-> "username", username |-> username]}]
       ELSE /\ form' = [form EXCEPT !.farcasterUsername = username]
            /\ UNCHANGED formPending
    /\ formEvent' = Quiet("edit")
    /\ UNCHANGED <<formProps, formCalls>>
    /\ UNCHANGED <<frameVars, validateVars, regVars, gasVars, metaVars, prepVars, libVars>>

\* handleFidChange up to its await
HandleFidChange(fidInput) ==
    LET newFid == IF fidInput # "" THEN Some(ParseInt(fidInput)) ELSE None
    IN  /\ FormShown /\ ~form.loading
        /\ IF ~FalsyNum(newFid) /\ Get(newFid) > 0
           THEN /\ Cardinality(formPending.lookups) < MaxLookups
                /\ form' = [form EXCEPT !.farcasterFid = newFid,
                                        !.fetchingUserData = TRUE]
                /\ formPending' = [formPending EXCEPT !.lookups =
                       @ \cup {[by |-> "fid", username |-> <<>>]}]
           ELSE /\ form' = [form EXCEPT !.farcasterFid = newFid]
                /\ UNCHANGED formPending
        /\ formEvent' = Quiet("edit")
        /\ UNCHANGED <<formProps, formCalls>>
        /\ UNCHANGED <<frameVars, validateVars, regVars, gasVars, metaVars, prepVars, libVars>>

\* The await of a pending lookup ends with outcome r: the rest of
\* handleUsernameChange or handleFidChange.
LookupSettles(l, r) ==
    /\ l \in formPending.lookups
    /\ formPending' = [formPending EXCEPT !.lookups = @ \ {l}]
    /\ LET bio == IF IsSome(r.bio) THEN Get(r.bio) ELSE <<>>
       IN  form' =
             IF r.kind = "user" /\ l.by = "fid"
                THEN [form EXCEPT !.farcasterUsername = r.username,
                                  !.bio = bio, !.fetchingUserData = FALSE]
             ELSE IF r.kind = "user" /\ r.username = l.username
                THEN [form EXCEPT !.bio = bio, !.fetchingUserData = FALSE]
             ELSE [form EXCEPT !.fetchingUserData = FALSE]
    /\ formEvent' = Quiet("lookup")
    /\ UNCHANGED <<formProps, formCalls>>
    /\ UNCHANGED <<frameVars, validateVars, regVars, gasVars, metaVars, prepVars, libVars>>

\* The checks of handleSubmit in order: the message of the first one that
\* fails, or None.
FirstError(f) ==
    IF Len(Trim(f.farcasterUsername)) = 0
        THEN Some("Farcaster username is required")
    ELSE IF FalsyNum(f.farcasterFid) \/ Get(f.farcasterFid) <= 0
        THEN Some("Valid Farcaster ID is required")
    ELSE IF Len(Trim(f.bio)) = 0
        THEN Some("Bio is required")
    ELSE None

\* setSuccess(true) and the four fields cleared, then finally
Succeeded(f) ==
    [f EXCEPT !.success = TRUE, !.bio = <<>>, !.socialLinks = <<>>,
              !.farcasterUsername = <<>>, !.farcasterFid = None,
              !.loading = FALSE]

\* The data handed to onSubmit.
RegistrationData(f) ==
    [domain |-> formProps.domain, bio |-> f.bio,
     socialLinks |-> f.socialLinks,
     farcasterUsername |-> f.farcasterUsername,
     farcasterFid |-> Get(f.farcasterFid)]

\* SubmitEnabled for a submit button that stays enabled while loading.
SubmitEnabledWhileLoading == FormShown /\ ~FalsyNum(form.farcasterFid)

\* A submit event can reach the form: the form is rendered and its submit
\* button is not disabled (disabled={loading || !farcasterFid}).
SubmitEnabled ==
    FormShown /\ ~form.loading /\ ~FalsyNum(form.farcasterFid)

\* A submit event: handleSubmit up to its await, or to its end when there
\* is nothing to await.  The submit button is disabled while loading and
\* while farcasterFid is falsy.
HandleSubmit ==
    /\ SubmitEnabled
    /\ formCalls < MaxSubmits
    /\ LET e == FirstError(form)
       IN  IF IsSome(e)
           THEN /\ form' = [form EXCEPT !.error = e]
                /\ formEvent' = Event("invalid", None)
                /\ UNCHANGED <<formPending, formCalls>>
           ELSE IF formProps.onSubmit
           THEN /\ form' = [form EXCEPT !.error = None, !.loading = TRUE]
                /\ formPending' = [formPending EXCEPT !.submit =
                                       Append(@, RegistrationData(form))]
                /\ formCalls' = formCalls + 1
                /\ formEvent' = Event("submitted", None)
           ELSE /\ form' = Succeeded([form EXCEPT !.error = None])
                /\ formEvent' = Event("succeeded", None)
                /\ UNCHANGED <<formPending, formCalls>>
    /\ UNCHANGED formProps
    /\ UNCHANGED <<frameVars, validateVars, regVars, gasVars, metaVars, prepVars, libVars>>

\* await onSubmit(...) resolves: the rest of the try block, then finally.
SubmitResolves ==
    /\ Len(formPending.submit) > 0
    /\ form' = Succeeded(form)
    /\ formPending' = [formPending EXCEPT !.submit = Tail(@)]
    /\ formEvent' = Event("succeeded", None)
    /\ UNCHANGED <<formProps, formCalls>>
    /\ UNCHANGED <<frameVars, validateVars, regVars, gasVars, metaVars, prepVars, libVars>>

\* Failed that also clears the fields, as the success path does.
FailedClearsFields(f, err) ==
    [f EXCEPT !.error = Some(IF err.isError THEN err.message
                             ELSE "Registration failed"),
              !.bio = <<>>, !.socialLinks = <<>>,
              !.farcasterUsername = <<>>, !.farcasterFid = None,
              !.loading = FALSE]

\* The form after the catch block and finally.
Failed(f, err) ==
    [f EXCEPT !.error = Some(IF err.isError THEN err.message
                             ELSE "Registration failed"),
              !.loading = FALSE]

\* await onSubmit(...) rejects with err: the catch block, then finally.
SubmitRejects(err) ==
    /\ Len(formPending.submit) > 0
    /\ form' = Failed(form, err)
    /\ formPending' = [formPending EXCEPT !.submit = Tail(@)]
    /\ formEvent' = Event("failed", Some(err))
    /\ UNCHANGED <<formProps, formCalls>>
    /\ UNCHANGED <<frameVars, validateVars, regVars, gasVars, metaVars, prepVars, libVars>>

appVars ==
    <<frameVars, validateVars, regVars, gasVars, metaVars, prepVars, formVars,
      extVars>>

\* Whether time t is later than time u.
After(t, u) == t.day > u.day \/ (t.day = u.day /\ t.ms > u.ms)

(***************************************************************************)
(* checkRateLimit (lib/api-utils.ts).  Every caller passes the same limit  *)
(* and windowMs, held in rateConfig.                                       *)
(***************************************************************************)
MaxLimit == 2
MaxWindowMs == 1
MaxOverLimit == 2

RateKeys == {"ip1", "ip2"}

RateConfigs == [limit : 1..MaxLimit, windowMs : 0..MaxWindowMs]

\* checkRateLimit that lets one call more through before it denies.
CheckRateLimitOneMore(counts, key, limit, windowMs, now) ==
    LET data == counts[key]
    IN  IF ~IsSome(data) \/ After(now, Get(data).reset)
        THEN [counts |-> [counts EXCEPT ![key] =
                             Some([count |-> 1, reset |-> Later(now, windowMs)])],
              result |-> [allowed |-> TRUE, remaining |-> limit - 1]]
        ELSE LET count == Get(data).count + 1
             IN  [counts |-> [counts EXCEPT ![key] =
                                 Some([Get(data) EXCEPT !.count = count])],
                  result |-> IF count > limit + 1
                             THEN [allowed |-> FALSE, remaining |-> 0]
                             ELSE [allowed |-> TRUE,
                                   remaining |-> limit - count]]

\* checkRateLimit(key, limit, windowMs) when Date.now() answers now: the
\* Map after the call and the value returned.
CheckRateLimit(counts, key, limit, windowMs, now) ==
    LET data == counts[key]
    IN  IF ~IsSome(data) \/ After(now, Get(data).reset)
        THEN [counts |-> [counts EXCEPT ![key] =
                             Some([count |-> 1, reset |-> Later(now, windowMs)])],
              result |-> [allowed |-> TRUE, remaining |-> limit - 1]]
        ELSE LET count == Get(data).count + 1
             IN  [counts |-> [counts EXCEPT ![key] =
                                 Some([Get(data) EXCEPT !.count = count])],
                  result |-> IF count > limit
                             THEN [allowed |-> FALSE, remaining |-> 0]
                             ELSE [allowed |-> TRUE,
                                   remaining |-> limit - count]]

\* The window of a key as a caller sees it: when the call that opened it
\* was made, and the calls and the allowed calls made in it since.
NoWindow == [opened |-> None, calls |-> 0, allowed |-> 0]

\* The window after a call at time now with the result given: the call
\* opens a window when there is none or when now is past the reset time of
\* the one there is.
WindowAfter(w, windowMs, now, result) ==
    LET n == IF result.allowed THEN 1 ELSE 0
    IN  IF ~IsSome(w.opened) \/ After(now, Later(Get(w.opened), windowMs))
        THEN [opened |-> Some(now), calls |-> 1, allowed |-> n]
        ELSE [w EXCEPT !.calls = @ + 1, !.allowed = @ + n]

NoRateCall ==
    [key |-> "", allowed |-> TRUE, remaining |-> 0, opens |-> FALSE,
     reopens |-> FALSE]

RateIdle ==
    /\ rateConfig = [limit |-> 1, windowMs |-> 0]
    /\ requestCounts = [k \in RateKeys |-> None]
    /\ rateWindow = [k \in RateKeys |-> NoWindow]
    /\ rateLast = NoRateCall

RateInit ==
    /\ rateConfig \in RateConfigs
    /\ requestCounts = [k \in RateKeys |-> None]
    /\ rateWindow = [k \in RateKeys |-> NoWindow]
    /\ rateLast = NoRateCall

\* One call checkRateLimit(key, limit, windowMs).
RateCall(key) ==
    LET c == CheckRateLimit(requestCounts, key, rateConfig.limit,
                            rateConfig.windowMs, clock)
        w == WindowAfter(rateWindow[key], rateConfig.windowMs, clock, c.result)
    IN  /\ w.calls <= rateConfig.limit + MaxOverLimit
        /\ requestCounts' = c.counts
        /\ rateWindow' = [rateWindow EXCEPT ![key] = w]
        /\ rateLast' = [key |-> key, allowed |-> c.result.allowed,
                        remaining |-> c.result.remaining,
                        opens |-> w.calls = 1,
                        reopens |-> w.calls = 1
                                    /\ IsSome(rateWindow[key].opened)]
        /\ UNCHANGED rateConfig
        /\ UNCHANGED <<appVars, cacheVars, walletVars, sdkVars, accountVars>>

RateRequest == \E key \in RateKeys : RateCall(key)

(***************************************************************************)
(* getCachedResponse, cacheResponse, invalidateCache (lib/api-utils.ts).   *)
(* Keys and patterns are sequences of characters; a pattern is a regular   *)
(* expression made of literal characters and of ".".                       *)
(***************************************************************************)
MaxTtl == 1

CacheKeys == {<<"a", "b">>, <<"b", "c">>}
CacheData == {"d1", "d2"}
CacheTtls == 0..MaxTtl
CachePatterns == Opt({<<>>, <<"a">>, <<"b">>, <<".", "c">>, <<"x">>})

\* new RegExp(pattern).test(key)
RegexTest(pattern, key) ==
    \E i \in 1..(Len(key) - Len(pattern) + 1) :
        \A j \in 1..Len(pattern) :
            pattern[j] = "." \/ pattern[j] = key[i + j - 1]

\* getCachedResponse that leaves an entry it finds expired in the Map.
GetCachedKeepsExpired(c, key, now) ==
    LET cached == c[key]
    IN  IF ~IsSome(cached) THEN [cache |-> c, result |-> None]
        ELSE IF After(now, Get(cached).expires)
            THEN [cache |-> c, result |-> None]
        ELSE [cache |-> c, result |-> Some(Get(cached).data)]

\* getCachedResponse(key) when Date.now() answers now: the Map after the
\* call and the value returned (None for null).
GetCachedResponse(c, key, now) ==
    LET cached == c[key]
    IN  IF ~IsSome(cached) THEN [cache |-> c, result |-> None]
        ELSE IF After(now, Get(cached).expires)
            THEN [cache |-> [c EXCEPT ![key] = None], result |-> None]
        ELSE [cache |-> c, result |-> Some(Get(cached).data)]

\* cacheResponse(key, data, ttl): the Map after the call.
CacheResponse(c, key, data, ttl, now) ==
    [c EXCEPT ![key] = Some([data |-> data, expires |-> Later(now, ttl)])]

\* invalidateCache(pattern): the Map after the call.
InvalidateCache(c, pattern) ==
    IF Falsy(pattern) THEN [k \in CacheKeys |-> None]
    ELSE [k \in CacheKeys |->
             IF RegexTest(Get(pattern), k) THEN None ELSE c[k]]

NoCacheCall == [op |-> "none", key |-> <<>>, now |-> Time(0, 0), result |-> None]

CacheIdle ==
    /\ cache = [k \in CacheKeys |-> None]
    /\ cacheWrites = [k \in CacheKeys |-> None]
    /\ cacheLast = NoCacheCall

\* One call cacheResponse(key, data, ttl).
CacheSet(key, data, ttl) ==
    /\ cache' = CacheResponse(cache, key, data, ttl, clock)
    /\ cacheWrites' = [cacheWrites EXCEPT ![key] =
                          Some([data |-> data, at |-> clock, ttl |-> ttl])]
    /\ cacheLast' = [op |-> "set", key |-> key, now |-> clock,
                     result |-> Some(data)]
    /\ UNCHANGED <<appVars, rateVars, walletVars, sdkVars, accountVars>>

\* One call getCachedResponse(key).
CacheGet(key) ==
    LET g == GetCachedResponse(cache, key, clock)
    IN  /\ cache' = g.cache
        /\ cacheLast' = [op |-> "get", key |-> key, now |-> clock,
                         result |-> g.result]
        /\ UNCHANGED cacheWrites
        /\ UNCHANGED <<appVars, rateVars, walletVars, sdkVars, accountVars>>

\* One call invalidateCache(pattern); called with no pattern or with an
\* empty one it matches every key.
CacheInvalidate(pattern) ==
    /\ cache' = InvalidateCache(cache, pattern)
    /\ cacheWrites' = [k \in CacheKeys |->
                          IF ~IsSome(pattern) \/ Get(pattern) = <<>>
                             \/ RegexTest(Get(pattern), k)
                          THEN None ELSE cacheWrites[k]]
    /\ cacheLast' = [op |-> "invalidate", key |-> <<>>, now |-> clock,
                     result |-> None]
    /\ UNCHANGED <<appVars, rateVars, walletVars, sdkVars, accountVars>>

CacheSetRequest ==
    \E key \in CacheKeys, data \in CacheData, ttl \in CacheTtls :
        CacheSet(key, data, ttl)
CacheGetRequest == \E key \in CacheKeys : CacheGet(key)
CacheInvalidateRequest == \E pattern \in CachePatterns : CacheInvalidate(pattern)

(***************************************************************************)
(* waitForProvider and initFarcasterWallet (lib/farcaster-wallet.ts), in a *)
(* browser or, for initFarcasterWallet, on the server.  walletEnv tells    *)
(* whether there is a window and whether window.ethereum and               *)
(* window.farcaster.wallet.provider are set.                               *)
(***************************************************************************)
maxAttempts == 50
maxRetries == 50

WalletEnvs == [window : BOOLEAN, ethereum : {FALSE}, farcaster : {FALSE}]
              \cup [window : {TRUE}, ethereum : BOOLEAN, farcaster : BOOLEAN]

\* isWalletAvailable()
IsWalletAvailable(env) == env.window /\ (env.farcaster \/ env.ethereum)

\* The polls made so far by each function and how many of them saw a
\* provider.
NothingObserved == [waitPolls |-> 0, waitSeen |-> 0, initChecks |-> 0,
                    initSeen |-> 0]

\* checkProvider that gives up one poll later.
CheckProviderOnePollMore(env, n) ==
    IF env.ethereum \/ n > maxAttempts
    THEN [pc |-> "resolved", attempts |-> n,
          result |-> IF env.ethereum THEN Some("ethereum") ELSE None]
    ELSE [pc |-> "timer", attempts |-> n + 1, result |-> None]

\* checkProvider() with attempts = n: it resolves the promise with
\* window.ethereum, or counts an attempt and sets the timer.
CheckProvider(env, n) ==
    IF env.ethereum \/ n >= maxAttempts
    THEN [pc |-> "resolved", attempts |-> n,
          result |-> IF env.ethereum THEN Some("ethereum") ELSE None]
    ELSE [pc |-> "timer", attempts |-> n + 1, result |-> None]

\* One run of checkProvider.
Poll ==
    LET c == CheckProvider(walletEnv, attempts)
    IN  /\ waitPc' = c.pc
        /\ attempts' = c.attempts
        /\ waitResult' = c.result
        /\ walletObserved' =
              [walletObserved EXCEPT
                  !.waitPolls = @ + 1,
                  !.waitSeen = @ + (IF walletEnv.ethereum THEN 1 ELSE 0)]
        /\ UNCHANGED <<walletEnv, initPc, retries, initResult>>
        /\ UNCHANGED <<appVars, rateVars, cacheVars, sdkVars, accountVars>>

\* waitForProvider(): the promise's executor runs checkProvider at once.
WaitForProvider ==
    /\ waitPc = "idle"
    /\ walletEnv.window
    /\ Poll

\* setTimeout(checkProvider, 100) fires.
WaitTimerFires ==
    /\ waitPc = "timer"
    /\ Poll

\* What the checks of initFarcasterWallet made from retries = n on, without
\* a timer in between, end with: k checks of isWalletAvailable are made.
InitChecks(env, n, k) ==
    IF n < maxRetries
    THEN IF IsWalletAvailable(env)
         THEN [pc |-> "returned", result |-> Some(TRUE), checks |-> k]
         ELSE [pc |-> "sleep", result |-> None, checks |-> k]
    ELSE [pc |-> "returned", result |-> Some(FALSE), checks |-> k - 1]

\* initFarcasterWallet() up to its first await or to its return.
InitFarcasterWallet ==
    /\ initPc = "idle"
    /\ LET c == IF ~walletEnv.window
                   THEN [pc |-> "returned", result |-> Some(FALSE), checks |-> 0]
                ELSE IF IsWalletAvailable(walletEnv)
                   THEN [pc |-> "returned", result |-> Some(TRUE), checks |-> 1]
                ELSE InitChecks(walletEnv, 0, 2)
       IN  /\ initPc' = c.pc
           /\ initResult' = c.result
           /\ walletObserved' =
                 [walletObserved EXCEPT
                     !.initChecks = @ + c.checks,
                     !.initSeen = @ + (IF c.result = Some(TRUE) THEN 1 ELSE 0)]
    /\ retries' = 0
    /\ UNCHANGED <<walletEnv, waitPc, attempts, waitResult>>
    /\ UNCHANGED <<appVars, rateVars, cacheVars, sdkVars, accountVars>>

\* The timer of the loop fires: retries++, then the loop's test and check.
InitTimerFires ==
    /\ initPc = "sleep"
    /\ LET c == InitChecks(walletEnv, retries + 1, 1)
       IN  /\ initPc' = c.pc
           /\ initResult' = c.result
           /\ walletObserved' =
                 [walletObserved EXCEPT
                     !.initChecks = @ + c.checks,
                     !.initSeen = @ + (IF c.result = Some(TRUE) THEN 1 ELSE 0)]
    /\ retries' = retries + 1
    /\ UNCHANGED <<walletEnv, waitPc, attempts, waitResult>>
    /\ UNCHANGED <<appVars, rateVars, cacheVars, sdkVars, accountVars>>

\* The host injects window.ethereum.
EthereumInjected ==
    /\ walletEnv.window /\ ~walletEnv.ethereum
    /\ walletEnv' = [walletEnv EXCEPT !.ethereum = TRUE]
    /\ UNCHANGED <<waitPc, attempts, waitResult, initPc, retries, initResult,
                   walletObserved>>
    /\ UNCHANGED <<appVars, rateVars, cacheVars, sdkVars, accountVars>>

\* The host sets window.farcaster.wallet.provider.
FarcasterInjected ==
    /\ walletEnv.window /\ ~walletEnv.farcaster
    /\ walletEnv' = [walletEnv EXCEPT !.farcaster = TRUE]
    /\ UNCHANGED <<waitPc, attempts, waitResult, initPc, retries, initResult,
                   walletObserved>>
    /\ UNCHANGED <<appVars, rateVars, cacheVars, sdkVars, accountVars>>

WalletIdle ==
    /\ walletEnv = [window |-> FALSE, ethereum |-> FALSE, farcaster |-> FALSE]
    /\ waitPc = "idle" /\ attempts = 0 /\ waitResult = None
    /\ initPc = "idle" /\ retries = 0 /\ initResult = None
    /\ walletObserved = NothingObserved

WalletInit ==
    /\ walletEnv \in WalletEnvs
    /\ waitPc = "idle" /\ attempts = 0 /\ waitResult = None
    /\ initPc = "idle" /\ retries = 0 /\ initResult = None
    /\ walletObserved = NothingObserved

(***************************************************************************)
(* initializeFarcasterSDK and notifyAppReady (lib/farcaster-sdk).  sdkEnv  *)
(* tells whether there is a window, what isInMiniApp() answers, whether    *)
(* window.farcaster is set and has a function actions.ready (which may     *)
(* throw), and document.readyState.                                        *)
(***************************************************************************)
MaxInitCalls == 3

SdkEnvs ==
    [window : {FALSE}, miniApp : {FALSE}, sdk : {"none"}, readyState : {"complete"}]
    \cup [window : {TRUE}, miniApp : BOOLEAN,
          sdk : {"none", "noReady", "ready", "readyThrows"},
          readyState : {"loading", "complete"}]

SdkIdle ==
    /\ sdkEnv = [window |-> FALSE, miniApp |-> FALSE, sdk |-> "none",
                 readyState |-> "complete"]
    /\ sdkInitialized = FALSE
    /\ isInMiniAppContext = FALSE
    /\ sdkListeners = 0
    /\ sdkTimers = 0
    /\ sdkReadyCalls = 0
    /\ sdkInitCalls = 0

SdkInit ==
    /\ sdkEnv \in SdkEnvs
    /\ sdkInitialized = FALSE
    /\ isInMiniAppContext = FALSE
    /\ sdkListeners = 0
    /\ sdkTimers = 0
    /\ sdkReadyCalls = 0
    /\ sdkInitCalls = 0

\* One call initializeFarcasterSDK(), as the provider component's mount
\* effect makes each time it runs.
InitializeFarcasterSDK ==
    /\ sdkInitCalls < MaxInitCalls
    /\ sdkInitCalls' = sdkInitCalls + 1
    /\ IF sdkInitialized \/ ~sdkEnv.window
       THEN UNCHANGED <<sdkInitialized, isInMiniAppContext, sdkListeners,
                        sdkTimers>>
       ELSE /\ isInMiniAppContext' = sdkEnv.miniApp
            /\ IF sdkEnv.miniApp
               THEN /\ IF sdkEnv.readyState = "loading"
                       THEN /\ sdkListeners' = sdkListeners + 1
                            /\ UNCHANGED sdkTimers
                       ELSE /\ sdkTimers' = sdkTimers + 1
                            /\ UNCHANGED sdkListeners
                    /\ UNCHANGED sdkInitialized
               ELSE /\ sdkInitialized' = TRUE
                    /\ UNCHANGED <<sdkListeners, sdkTimers>>
    /\ UNCHANGED <<sdkEnv, sdkReadyCalls>>
    /\ UNCHANGED <<appVars, rateVars, cacheVars, walletVars, accountVars>>

\* The document fires DOMContentLoaded: every listener added sets its timer.
DOMContentLoaded ==
    /\ sdkEnv.window /\ sdkEnv.readyState = "loading"
    /\ sdkEnv' = [sdkEnv EXCEPT !.readyState = "complete"]
    /\ sdkTimers' = sdkTimers + sdkListeners
    /\ sdkListeners' = 0
    /\ UNCHANGED <<sdkInitialized, isInMiniAppContext, sdkReadyCalls,
                   sdkInitCalls>>
    /\ UNCHANGED <<appVars, rateVars, cacheVars, walletVars, accountVars>>

\* A timer fires: notifyAppReady().
NotifyAppReady ==
    /\ sdkTimers > 0
    /\ sdkTimers' = sdkTimers - 1
    /\ sdkReadyCalls' = sdkReadyCalls
          + (IF sdkEnv.sdk \in {"ready", "readyThrows"} THEN 1 ELSE 0)
    /\ sdkInitialized' = (sdkInitialized \/ sdkEnv.sdk = "ready")
    /\ UNCHANGED <<sdkEnv, isInMiniAppContext, sdkListeners, sdkInitCalls>>
    /\ UNCHANGED <<appVars, rateVars, cacheVars, walletVars, accountVars>>

\* The host sets window.farcaster.
SdkInjected ==
    /\ sdkEnv.window /\ sdkEnv.sdk = "none"
    /\ sdkEnv' = [sdkEnv EXCEPT !.sdk = "ready"]
    /\ UNCHANGED <<sdkInitialized, isInMiniAppContext, sdkListeners,
                   sdkTimers, sdkReadyCalls, sdkInitCalls>>
    /\ UNCHANGED <<appVars, rateVars, cacheVars, walletVars, accountVars>>

(***************************************************************************)
(* onAccountChange (lib/farcaster-wallet.ts).  acctProvider holds the      *)
(* provider's accounts and chain id, whether it has the methods on and     *)
(* off, the listeners registered with it, each an event name and the       *)
(* function registered, and the number of events it has emitted.           *)
(***************************************************************************)
MaxProviderEvents == 3

AccountLists == {<<>>, <<"0xA">>, <<"0xB">>}
ChainIds == {<<"1">>, <<"a", "4", "e", "c">>}

HexDigits == <<"0", "1", "2", "3", "4", "5", "6", "7", "8", "9",
               "a", "b", "c", "d", "e", "f">>

HexDigit(c) == (CHOOSE i \in 1..16 : HexDigits[i] = c) - 1

\* parseInt("0x" + digits, 16)
RECURSIVE ParseHex(_)
ParseHex(digits) ==
    IF Len(digits) = 0 THEN 0
    ELSE 16 * ParseHex(SubSeq(digits, 1, Len(digits) - 1))
         + HexDigit(digits[Len(digits)])

\* The two arrow functions passed to provider.on.
Wrappers ==
    {[event |-> "accountsChanged", fn |-> "accountsChanged wrapper"],
     [event |-> "chainChanged", fn |-> "chainChanged wrapper"]}

\* The registrations the cleanup function asks provider.off to remove.
Removed ==
    {[event |-> "accountsChanged", fn |-> "handleAccountChange"],
     [event |-> "chainChanged", fn |-> "handleAccountChange"]}

AcctProviders ==
    [accounts : {<<>>, <<"0xA">>}, chainId : {<<"1">>}, on : BOOLEAN,
     off : BOOLEAN, listeners : {{}}, emitted : {0}]

AccountIdle ==
    /\ acctProvider = [accounts |-> <<>>, chainId |-> <<"1">>, on |-> FALSE,
                       off |-> FALSE, listeners |-> {}, emitted |-> 0]
    /\ acctPending = <<>>
    /\ acctDelivered = <<>>
    /\ acctCleaned = "unsubscribed"
    /\ acctLate = 0

AccountInit ==
    /\ acctProvider \in AcctProviders
    /\ acctPending = <<>>
    /\ acctDelivered = <<>>
    /\ acctCleaned = "unsubscribed"
    /\ acctLate = 0

RemoveAt(seq, i) == SubSeq(seq, 1, i - 1) \o SubSeq(seq, i + 1, Len(seq))

\* Whether a listener is registered for the event.
Listening(event) == \E l \in acctProvider.listeners : l.event = event

\* A run of handleAccountChange that has just started; late tells whether
\* the event that started it came after the cleanup.
Run(late) == [stage |-> "accounts", accounts |-> <<>>, late |-> late]

Lateness(late) == IF late THEN 1 ELSE 0

\* onAccountChange(callback), in a browser whose window has a provider.
OnAccountChange ==
    /\ acctCleaned = "unsubscribed"
    /\ acctCleaned' = "subscribed"
    /\ acctProvider' = IF acctProvider.on
                       THEN [acctProvider EXCEPT !.listeners = @ \cup Wrappers]
                       ELSE acctProvider
    /\ UNCHANGED <<acctPending, acctDelivered, acctLate>>
    /\ UNCHANGED <<appVars, rateVars, cacheVars, walletVars, sdkVars>>

\* The function onAccountChange returned is called.
Cleanup ==
    /\ acctCleaned = "subscribed"
    /\ acctCleaned' = "cleaned"
    /\ acctProvider' = IF acctProvider.off
                       THEN [acctProvider EXCEPT !.listeners = @ \ Removed]
                       ELSE acctProvider
    /\ UNCHANGED <<acctPending, acctDelivered, acctLate>>
    /\ UNCHANGED <<appVars, rateVars, cacheVars, walletVars, sdkVars>>

\* The provider's accounts become a and it emits accountsChanged(a).
AccountsChanged(a) ==
    /\ acctProvider.emitted < MaxProviderEvents
    /\ acctProvider' = [acctProvider EXCEPT !.accounts = a, !.emitted = @ + 1]
    /\ IF ~Listening("accountsChanged")
       THEN UNCHANGED <<acctPending, acctDelivered, acctLate>>
       ELSE IF Len(a) > 0
       THEN /\ acctPending' = Append(acctPending, Run(acctCleaned = "cleaned"))
            /\ UNCHANGED <<acctDelivered, acctLate>>
       ELSE /\ acctDelivered' = Append(acctDelivered, None)
            /\ acctLate' = acctLate + Lateness(acctCleaned = "cleaned")
            /\ UNCHANGED acctPending
    /\ UNCHANGED acctCleaned
    /\ UNCHANGED <<appVars, rateVars, cacheVars, walletVars, sdkVars>>

\* The provider's chain becomes c and it emits chainChanged.
ChainChanged(c) ==
    /\ acctProvider.emitted < MaxProviderEvents
    /\ acctProvider' = [acctProvider EXCEPT !.chainId = c, !.emitted = @ + 1]
    /\ acctPending' = IF Listening("chainChanged")
                      THEN Append(acctPending, Run(acctCleaned = "cleaned"))
                      ELSE acctPending
    /\ UNCHANGED <<acctDelivered, acctLate, acctCleaned>>
    /\ UNCHANGED <<appVars, rateVars, cacheVars, walletVars, sdkVars>>

\* await provider.request({method: 'eth_accounts'}) of run i resolves with
\* the provider's accounts.
AccountsResolve(i) ==
    /\ i \in 1..Len(acctPending)
    /\ acctPending[i].stage = "accounts"
    /\ IF Len(acctProvider.accounts) > 0
       THEN /\ acctPending' = [acctPending EXCEPT ![i] =
                   [@ EXCEPT !.stage = "chain",
                             !.accounts = acctProvider.accounts]]
            /\ UNCHANGED <<acctDelivered, acctLate>>
       ELSE /\ acctPending' = RemoveAt(acctPending, i)
            /\ acctDelivered' = Append(acctDelivered, None)
            /\ acctLate' = acctLate + Lateness(acctPending[i].late)
    /\ UNCHANGED <<acctProvider, acctCleaned>>
    /\ UNCHANGED <<appVars, rateVars, cacheVars, walletVars, sdkVars>>

\* await provider.request({method: 'eth_chainId'}) of run i resolves with
\* the provider's chain id.
ChainIdResolves(i) ==
    /\ i \in 1..Len(acctPending)
    /\ acctPending[i].stage = "chain"
    /\ acctPending' = RemoveAt(acctPending, i)
    /\ acctDelivered' = Append(acctDelivered,
           Some([address |-> acctPending[i].accounts[1],
                 chainId |-> ParseHex(acctProvider.chainId),
                 isConnected |-> TRUE]))
    /\ acctLate' = acctLate + Lateness(acctPending[i].late)
    /\ UNCHANGED <<acctProvider, acctCleaned>>
    /\ UNCHANGED <<appVars, rateVars, cacheVars, walletVars, sdkVars>>

\* The request run i awaits rejects: the catch block logs it.
AccountRequestRejects(i) ==
    /\ i \in 1..Len(acctPending)
    /\ acctPending' = RemoveAt(acctPending, i)
    /\ UNCHANGED <<acctProvider, acctDelivered, acctCleaned, acctLate>>
    /\ UNCHANGED <<appVars, rateVars, cacheVars, walletVars, sdkVars>>

\* Every variable but those of the later components.
restVars ==
    <<validateVars, regVars, gasVars, metaVars, prepVars, formVars,
      rateVars, cacheVars, walletVars, sdkVars, accountVars>>
baseVars == <<frameVars, restVars>>

(***************************************************************************)
(* Domain generation (lib/domain-generator.ts).  Names are sequences of    *)
(* characters.                                                             *)
(***************************************************************************)
MaxNameLen == 3

\* The characters a username is made of in the model: a lower-case and an
\* upper-case letter, a digit, the hyphen, the underscore, the space and a
\* character outside every class.
NameChars == {"a", "A", "1", "-", "_", " ", "!"}

\* Names near the truncation length, built on a run of letters.
LongNames ==
    { Rep("a", n) \o tail :
        n \in (MaxDomainNameLength - 2)..MaxDomainNameLength,
        tail \in {<<>>, <<"-">>, <<"-", "a">>, <<"-", "-", "a">>, <<"a", "a">>} }

\* username: string | null
Usernames ==
    Opt(UNION { [1..n -> NameChars] : n \in 0..MaxNameLen } \cup LongNames)

\* The decimal digits of a natural number, as `${n}` prints them.
RECURSIVE DecimalChars(_)
DecimalChars(n) ==
    LET digit == <<"0", "1", "2", "3", "4", "5", "6", "7", "8", "9">>[(n % 10) + 1]
    IN  IF n < 10 THEN <<digit>> ELSE Append(DecimalChars(n \div 10), digit)

\* return `fid${fid}`
GenerateDomainFromFid(fid) == <<"f", "i", "d">> \o DecimalChars(fid)

\* name.toLowerCase()
ToLowerCase(name) ==
    [i \in 1..Len(name) |-> IF name[i] = "A" THEN "a" ELSE name[i]]

\* .replace(/^-+/, '')
RECURSIVE StripLeadingHyphens(_)
StripLeadingHyphens(t) ==
    IF Len(t) > 0 /\ Head(t) = "-" THEN StripLeadingHyphens(Tail(t)) ELSE t

\* .replace(/-+$/, '')
RECURSIVE StripTrailingHyphens(_)
StripTrailingHyphens(t) ==
    IF Len(t) > 0 /\ t[Len(t)] = "-"
    THEN StripTrailingHyphens(SubSeq(t, 1, Len(t) - 1))
    ELSE t

\* .replace(/-{2,}/g, '-')
RECURSIVE CollapseHyphens(_)
CollapseHyphens(t) ==
    IF Len(t) < 2 THEN t
    ELSE IF t[1] = "-" /\ t[2] = "-" THEN CollapseHyphens(Tail(t))
    ELSE <<t[1]>> \o CollapseHyphens(Tail(t))

\* sanitizeDomainName whose truncation leaves a trailing hyphen in place.
SanitizeKeepsCutHyphen(name) ==
    LET lower == ToLowerCase(name)
        hyphened == [i \in 1..Len(lower) |->
                        IF lower[i] \in {" ", "_"} THEN "-" ELSE lower[i]]
        safe == SelectSeq(hyphened, LAMBDA c : c \in SafeChars)
        collapsed ==
            CollapseHyphens(StripTrailingHyphens(StripLeadingHyphens(safe)))
    IN  IF Len(collapsed) > MaxDomainNameLength
        THEN SubSeq(collapsed, 1, MaxDomainNameLength)
        ELSE collapsed

SanitizeDomainName(name) ==
    LET lower == ToLowerCase(name)
        hyphened == [i \in 1..Len(lower) |->
                        IF lower[i] \in {" ", "_"} THEN "-" ELSE lower[i]]
        safe == SelectSeq(hyphened, LAMBDA c : c \in SafeChars)
        collapsed ==
            CollapseHyphens(StripTrailingHyphens(StripLeadingHyphens(safe)))
    IN  IF Len(collapsed) > MaxDomainNameLength
        THEN StripTrailingHyphens(SubSeq(collapsed, 1, MaxDomainNameLength))
        ELSE collapsed

GenerateDomainFromUsernameAndFid(username, fid) ==
    IF IsSome(username) /\ Len(Trim(Get(username))) > 0
          /\ Len(SanitizeDomainName(Get(username))) >= 3
          /\ Len(SanitizeDomainName(Get(username))) <= MaxDomainNameLength
    THEN SanitizeDomainName(Get(username))
    ELSE GenerateDomainFromFid(fid)

DomainIdle ==
    /\ genInput = None
    /\ genResult = None

\* A call of generateDomainFromUsernameAndFid: the function is pure, and a
\* behaviour holds one call of it.
GenerateDomain ==
    /\ genInput = None
    /\ \E username \in Usernames, fid \in FidValues :
        /\ genInput' = Some([username |-> username, fid |-> fid])
        /\ genResult' = Some(GenerateDomainFromUsernameAndFid(username, fid))
    /\ UNCHANGED <<baseVars, gasGetVars, sessionVars, autoVars>>

(***************************************************************************)
(* GET of the gas-estimate route (unnamed/part_005).  Amounts are decimal  *)
(* texts, sequences of digits.                                             *)
(***************************************************************************)
MaxGasGets == 2
GasUnits == 120000
MaxQuoteGwei == 2

\* A decimal text as the number m * 10^z it denotes, m without trailing zero.
RECURSIVE TrailingZeros(_)
TrailingZeros(text) ==
    IF Len(text) > 1 /\ text[Len(text)] = "0"
    THEN 1 + TrailingZeros(SubSeq(text, 1, Len(text) - 1))
    ELSE 0

DigitValue(c) ==
    CHOOSE d \in 0..9 : DecimalChars(d) = <<c>>

RECURSIVE DecimalValue(_)
DecimalValue(text) ==
    IF Len(text) = 0 THEN 0
    ELSE 10 * DecimalValue(SubSeq(text, 1, Len(text) - 1))
            + DigitValue(text[Len(text)])

Quantity(text) ==
    [m |-> DecimalValue(SubSeq(text, 1, Len(text) - TrailingZeros(text))),
     z |-> TrailingZeros(text)]

\* The product of two such numbers.
RECURSIVE Scaled(_, _)
Scaled(m, z) ==
    IF m # 0 /\ m % 10 = 0 THEN Scaled(m \div 10, z + 1) ELSE [m |-> m, z |-> z]

Times(a, b) == Scaled(a.m * b.m, a.z + b.z)

\* What await estimateRegistrationCost() can resolve with: the estimate for
\* a gas price of g gwei.
Quote(g) ==
    [gasEstimate |-> DecimalChars(GasUnits),
     gasPrice |-> DecimalChars(g) \o Rep("0", 9),
     totalCostWei |-> DecimalChars(GasUnits * g) \o Rep("0", 9),
     totalCostCELO |-> FormatEther(GasUnits * g),
     totalCostUSD |-> CostUSDText(GasUnits * g)]

Quotes == {Quote(g) : g \in 1..MaxQuoteGwei}

\* The body of the catch block: gasEstimate '120000000000000000',
\* gasPrice '1000000000', totalCostWei '120000000000000'.
GasGetFallback ==
    [gasEstimate |-> <<"1", "2">> \o Rep("0", 16),
     gasPrice |-> <<"1">> \o Rep("0", 9),
     totalCostWei |-> <<"1", "2">> \o Rep("0", 13),
     totalCostCELO |-> "0.00012",
     totalCostUSD |-> "0.24"]

GasGetIdle == gasGet = <<>>

\* export async function GET(request): estimateRegistrationCost resolves
\* with an estimate, or it rejects and the catch block answers.
GasGET(outcome) ==
    /\ Len(gasGet) < MaxGasGets
    /\ gasGet' = Append(gasGet,
          [failed |-> ~IsSome(outcome),
           status |-> 200,
           body |-> IF IsSome(outcome) THEN Get(outcome) ELSE GasGetFallback,
           timestamp |-> ToISOString(clock)])
    /\ UNCHANGED <<baseVars, domainVars, sessionVars, autoVars>>

GasGetRequest == \E outcome \in Opt(Quotes) : GasGET(outcome)

(***************************************************************************)
(* A frame session (unnamed/part_005): the client shows the frame of the   *)
(* GET handler, then posts only with buttons the presentation on screen    *)
(* offers, returning the state token it was sent.                          *)
(***************************************************************************)
\* The fc:frame:button meta tags of the GET handler.
GetFrameButtons ==
    << Button("Register Domain", "post", None),
       Button("My Domains", "post", None),
       Button("Visit App", "link", Some(baseUrl)) >>

\* The indexes of the buttons that post to the handler.
PostButtons(buttons) == {i \in 1..Len(buttons) : buttons[i].action = "post"}

SessionIdle == offered = {}

SessionInit == offered = PostButtons(GetFrameButtons)

\* The press of an offered button, with or without a typed text.
SessionPress ==
    /\ \E b \in offered, fid \in Opt(FidValues), text \in Opt(Texts) :
          FramePOST(ObjectBody(fid, Some(b), text,
                        IF IsSome(response) THEN Get(response).state ELSE None))
    /\ offered' = PostButtons(Get(response').buttons)
    /\ UNCHANGED <<restVars, domainVars, gasGetVars, autoVars>>

(***************************************************************************)
(* The auto-mint flow: the mount effect of RegistrationForm and the hook   *)
(* useFarcasterAutoMint.  The state updates of one synchronous stretch of  *)
(* code are applied together; an effect runs after a render in which one   *)
(* of its dependencies differs from the render it last ran after.          *)
(***************************************************************************)
MaxAutoRuns == 3

NoFidMessage ==
    "FID not available - please ensure you are in Farcaster Mini App context"
NoUserMessage == "Failed to fetch user data from Neynar"

\* autoMint, window.farcaster.context.user.fid, isConnected, and whether
\* chainId is the Celo chain.
AutoEnvs ==
    [autoMint : BOOLEAN, fid : Opt(FidValues), isConnected : BOOLEAN,
     onCelo : BOOLEAN]

InitialHook ==
    [userFarcasterData |-> None, loading |-> FALSE, autoConnecting |-> FALSE,
     error |-> None]

\* loading: loading || autoConnecting
AutoMintLoading(hook) == hook.loading \/ hook.autoConnecting

\* The dependency list of the effect: autoMint, autoConnectAndFetch (a new
\* function whenever isConnected or chainId changes), userFarcasterData and
\* autoMintLoading.
EffectDeps(env, hook) ==
    <<env.autoMint, <<env.isConnected, env.onCelo>>, hook.userFarcasterData,
      AutoMintLoading(hook)>>

\* What autoConnectAndFetch works from.
AutoInputs(env) == <<env.fid, env.isConnected, env.onCelo>>

AutoRun(env, failed) == [inputs |-> AutoInputs(env), failed |-> failed]

AutoIdle ==
    /\ autoEnv = [autoMint |-> FALSE, fid |-> None, isConnected |-> FALSE,
                  onCelo |-> FALSE]
    /\ autoHook = InitialHook
    /\ autoPc = "idle"
    /\ autoDeps = None
    /\ autoRuns = <<>>

AutoInit ==
    /\ autoEnv \in AutoEnvs
    /\ autoHook = InitialHook
    /\ autoPc = "idle"
    /\ autoDeps = None
    /\ autoRuns = <<>>

\* const fetchFarcasterUserData = ...: up to its await.
FetchStarts(hook) == [hook EXCEPT !.loading = TRUE, !.error = None]

\* useEffect(() => { if (autoMint && !userFarcasterData && !autoMintLoading)
\* autoConnectAndFetch() }, [...]): the effect, and the call it makes up to
\* the first await of autoConnectAndFetch.  (connect() returns at once; the
\* wallet connecting later is a change of the inputs.)
AutoMintEffect ==
    /\ autoDeps # Some(EffectDeps(autoEnv, autoHook))
    /\ autoDeps' = Some(EffectDeps(autoEnv, autoHook))
    /\ IF autoEnv.autoMint /\ ~IsSome(autoHook.userFarcasterData)
          /\ ~AutoMintLoading(autoHook) /\ Len(autoRuns) < MaxAutoRuns
       THEN IF ~IsSome(autoEnv.fid)
            THEN /\ autoHook' = [autoHook EXCEPT !.error = Some(NoFidMessage)]
                 /\ autoRuns' = Append(autoRuns, AutoRun(autoEnv, TRUE))
                 /\ UNCHANGED autoPc
            ELSE /\ autoRuns' = Append(autoRuns, AutoRun(autoEnv, FALSE))
                 /\ IF autoEnv.onCelo
                    THEN /\ autoHook' = FetchStarts(
                                [autoHook EXCEPT !.autoConnecting = TRUE])
                         /\ autoPc' = "fetching"
                    ELSE /\ autoHook' = [autoHook EXCEPT
                                            !.autoConnecting = TRUE,
                                            !.error = None]
                         /\ autoPc' = "switching"
       ELSE UNCHANGED <<autoHook, autoPc, autoRuns>>
    /\ UNCHANGED autoEnv
    /\ UNCHANGED <<baseVars, domainVars, gasGetVars, sessionVars>>

\* await switchToCeloMainnet() settles: resolved or rejected, the flow goes
\* on to fetchFarcasterUserData(fid).
SwitchSettles ==
    /\ autoPc = "switching"
    /\ autoPc' = "fetching"
    /\ autoHook' = FetchStarts(autoHook)
    /\ UNCHANGED <<autoEnv, autoDeps, autoRuns>>
    /\ UNCHANGED <<baseVars, domainVars, gasGetVars, sessionVars>>

\* await getAuthenticatedUserInfo(fid) resolves with a user or with null;
\* fetchFarcasterUserData returns and autoConnectAndFetch ends.
FetchSettles(found) ==
    /\ autoPc = "fetching"
    /\ autoPc' = "idle"
    /\ autoHook' =
          IF found
          THEN [autoHook EXCEPT !.userFarcasterData = autoEnv.fid,
                                !.loading = FALSE, !.autoConnecting = FALSE]
          ELSE [autoHook EXCEPT !.error = Some(NoUserMessage),
                                !.loading = FALSE, !.autoConnecting = FALSE]
    /\ autoRuns' = [autoRuns EXCEPT ![Len(autoRuns)].failed = ~found]
    /\ UNCHANGED <<autoEnv, autoDeps>>
    /\ UNCHANGED <<baseVars, domainVars, gasGetVars, sessionVars>>

LookupFinds == FetchSettles(TRUE)
LookupFindsNobody == FetchSettles(FALSE)

\* The inputs change: the wallet connects, the chain becomes Celo, or the
\* SDK context gets its user.
AutoInputsChange ==
    /\ \E env \in AutoEnvs :
          /\ env # autoEnv
          /\ env.autoMint = autoEnv.autoMint
          /\ autoEnv.isConnected => env.isConnected
          /\ autoEnv.onCelo => env.onCelo
          /\ IsSome(autoEnv.fid) => env.fid = autoEnv.fid
          /\ autoEnv' = env
    /\ UNCHANGED <<autoHook, autoPc, autoDeps, autoRuns>>
    /\ UNCHANGED <<baseVars, domainVars, gasGetVars, sessionVars>>

ExtIdle == DomainIdle /\ GasGetIdle /\ SessionIdle /\ AutoIdle

LibIdle ==
    RateIdle /\ CacheIdle /\ WalletIdle /\ SdkIdle /\ AccountIdle /\ ExtIdle

RestIdle == GasIdle /\ MetaIdle /\ PrepIdle /\ FormIdle /\ LibIdle

(***************************************************************************)
(* Specifications: one per component, the others at rest.                  *)
(***************************************************************************)
InitFrame == FrameInit /\ ValidateIdle /\ RegIdle /\ RestIdle
NextFrame == FrameRequest
SpecFrame == InitFrame /\ [][NextFrame]_vars

InitValidate == FrameInit /\ ValidateInit /\ RegIdle /\ RestIdle
NextValidate == ValidateCall
SpecValidate == InitValidate /\ [][NextValidate]_vars

InitReg == FrameInit /\ ValidateIdle /\ RegInit /\ RestIdle
NextReg ==
    \/ RegEnter
    \/ \E abi \in {"file", "minimal", "malformed"} : RegLoadABI(abi)
    \/ \E hash \in TxHashes : RegSendResolves(hash)
    \/ \E error \in Thrown(SendErrors) : RegSendRejects(error)
    \/ \E receipt \in Receipts : RegWaitResolves(receipt)
    \/ \E error \in Thrown(WaitErrors) : RegWaitRejects(error)
SpecReg == InitReg /\ [][NextReg]_vars

\* The arguments of a call of estimateMintingGas or prepareMintMetadata.
ParamsInit ==
    /\ params \in RegParams
    /\ validation = <<>>

GasInit ==
    /\ gasPc = "idle"
    /\ gasFee = None
    /\ gasError = None
    /\ gasResult = None

GasConstructs == GasEnter(TRUE)
GasConstructionThrows == GasEnter(FALSE)
GasFeeData == \E gasPrice \in Opt(GasPrices) : GasFeeDataResolves(gasPrice)

InitGas ==
    /\ FrameInit /\ ParamsInit /\ RegIdle
    /\ GasInit /\ MetaIdle /\ PrepIdle /\ FormIdle /\ LibIdle
NextGas ==
    \/ GasConstructs
    \/ GasConstructionThrows
    \/ GasFeeData
    \/ GasFeeDataRejects
SpecGas == InitGas /\ [][NextGas]_vars

InitMeta ==
    /\ FrameInit /\ ParamsInit /\ RegIdle
    /\ GasIdle /\ MetaInit /\ PrepIdle /\ FormIdle /\ LibIdle
NextMeta ==
    \/ ClockTick
    \/ MetaCall
SpecMeta == InitMeta /\ [][NextMeta]_vars

InitPrep ==
    /\ FrameInit /\ ValidateIdle /\ RegIdle
    /\ GasIdle /\ MetaIdle /\ PrepInit /\ FormIdle /\ LibIdle
NextPrep ==
    \/ ClockTick
    \/ RegisterRequest
SpecPrep == InitPrep /\ [][NextPrep]_vars

FormSetBio == \E text \in BioTexts : SetBio(text)
FormSetSocialLinks == \E text \in LinkTexts : SetSocialLinks(text)
FormUsernameChange == \E text \in UsernameTexts : HandleUsernameChange(text)
FormFidChange == \E text \in FidInputs : HandleFidChange(text)
FormLookupSettles ==
    \E l \in formPending.lookups : \E r \in LookupOutcomes : LookupSettles(l, r)
FormSubmitRejects == \E err \in SubmitErrors : SubmitRejects(err)

InitForm ==
    /\ FrameInit /\ ValidateIdle /\ RegIdle
    /\ GasIdle /\ MetaIdle /\ PrepIdle /\ FormInit /\ LibIdle
NextForm ==
    \/ FormSetBio
    \/ FormSetSocialLinks
    \/ FormUsernameChange
    \/ FormFidChange
    \/ FormLookupSettles
    \/ HandleSubmit
    \/ SubmitResolves
    \/ FormSubmitRejects
SpecForm == InitForm /\ [][NextForm]_vars

InitRate ==
    /\ FrameInit /\ ValidateIdle /\ RegIdle
    /\ GasIdle /\ MetaIdle /\ PrepIdle /\ FormIdle
    /\ RateInit /\ CacheIdle /\ WalletIdle /\ SdkIdle /\ AccountIdle /\ ExtIdle
NextRate ==
    \/ ClockTick
    \/ RateRequest
SpecRate == InitRate /\ [][NextRate]_vars

InitCache ==
    /\ FrameInit /\ ValidateIdle /\ RegIdle
    /\ GasIdle /\ MetaIdle /\ PrepIdle /\ FormIdle
    /\ RateIdle /\ CacheIdle /\ WalletIdle /\ SdkIdle /\ AccountIdle /\ ExtIdle
NextCache ==
    \/ ClockTick
    \/ CacheSetRequest
    \/ CacheGetRequest
    \/ CacheInvalidateRequest
SpecCache == InitCache /\ [][NextCache]_vars

InitWallet ==
    /\ FrameInit /\ ValidateIdle /\ RegIdle
    /\ GasIdle /\ MetaIdle /\ PrepIdle /\ FormIdle
    /\ RateIdle /\ CacheIdle /\ WalletInit /\ SdkIdle /\ AccountIdle /\ ExtIdle
NextWallet ==
    \/ WaitForProvider
    \/ WaitTimerFires
    \/ InitFarcasterWallet
    \/ InitTimerFires
    \/ EthereumInjected
    \/ FarcasterInjected
\* A timer that was set fires.
SpecWallet ==
    /\ InitWallet /\ [][NextWallet]_vars
    /\ WF_vars(WaitTimerFires) /\ WF_vars(InitTimerFires)

InitSdk ==
    /\ FrameInit /\ ValidateIdle /\ RegIdle
    /\ GasIdle /\ MetaIdle /\ PrepIdle /\ FormIdle
    /\ RateIdle /\ CacheIdle /\ WalletIdle /\ SdkInit /\ AccountIdle /\ ExtIdle
NextSdk ==
    \/ InitializeFarcasterSDK
    \/ DOMContentLoaded
    \/ NotifyAppReady
    \/ SdkInjected
SpecSdk == InitSdk /\ [][NextSdk]_vars

AccountsChangedEvent == \E a \in AccountLists : AccountsChanged(a)
ChainChangedEvent == \E c \in ChainIds : ChainChanged(c)
AccountsRequestSettles == \E i \in 1..Len(acctPending) : AccountsResolve(i)
ChainIdRequestSettles == \E i \in 1..Len(acctPending) : ChainIdResolves(i)
AccountRequestFails == \E i \in 1..Len(acctPending) : AccountRequestRejects(i)

InitAccount ==
    /\ FrameInit /\ ValidateIdle /\ RegIdle
    /\ GasIdle /\ MetaIdle /\ PrepIdle /\ FormIdle
    /\ RateIdle /\ CacheIdle /\ WalletIdle /\ SdkIdle /\ AccountInit /\ ExtIdle
NextAccount ==
    \/ OnAccountChange
    \/ Cleanup
    \/ AccountsChangedEvent
    \/ ChainChangedEvent
    \/ AccountsRequestSettles
    \/ ChainIdRequestSettles
    \/ AccountRequestFails
SpecAccount == InitAccount /\ [][NextAccount]_vars

InitDomain ==
    /\ FrameInit /\ ValidateIdle /\ RegIdle
    /\ GasIdle /\ MetaIdle /\ PrepIdle /\ FormIdle
    /\ RateIdle /\ CacheIdle /\ WalletIdle /\ SdkIdle /\ AccountIdle
    /\ DomainIdle /\ GasGetIdle /\ SessionIdle /\ AutoIdle
NextDomain == GenerateDomain
SpecDomain == InitDomain /\ [][NextDomain]_vars

InitGasGet ==
    /\ FrameInit /\ ValidateIdle /\ RegIdle
    /\ GasIdle /\ MetaInit /\ PrepIdle /\ FormIdle
    /\ RateIdle /\ CacheIdle /\ WalletIdle /\ SdkIdle /\ AccountIdle
    /\ DomainIdle /\ GasGetIdle /\ SessionIdle /\ AutoIdle
NextGasGet ==
    \/ ClockTick
    \/ GasGetRequest
SpecGasGet == InitGasGet /\ [][NextGasGet]_vars

InitSession ==
    /\ FrameInit /\ ValidateIdle /\ RegIdle
    /\ GasIdle /\ MetaIdle /\ PrepIdle /\ FormIdle
    /\ RateIdle /\ CacheIdle /\ WalletIdle /\ SdkIdle /\ AccountIdle
    /\ DomainIdle /\ GasGetIdle /\ SessionInit /\ AutoIdle
NextSession == SessionPress
SpecSession == InitSession /\ [][NextSession]_vars

InitAuto ==
    /\ FrameInit /\ ValidateIdle /\ RegIdle
    /\ GasIdle /\ MetaIdle /\ PrepIdle /\ FormIdle
    /\ RateIdle /\ CacheIdle /\ WalletIdle /\ SdkIdle /\ AccountIdle
    /\ DomainIdle /\ GasGetIdle /\ SessionIdle /\ AutoInit
NextAuto ==
    \/ AutoMintEffect
    \/ SwitchSettles
    \/ LookupFinds
    \/ LookupFindsNobody
    \/ AutoInputsChange
SpecAuto == InitAuto /\ [][NextAuto]_vars


(***************************************************************************)
(* Properties of the frame codec and of POST /api/frame (SpecFrame).       *)
(***************************************************************************)
Labels(buttons) == [i \in 1..Len(buttons) |-> buttons[i].label]
Actions(buttons) == [i \in 1..Len(buttons) |-> buttons[i].action]

\* The handler went through its try block to the end.
Handled == body.kind = "object" /\ IsSome(response)

\* Every FrameState over the values of the model.
FrameStates ==
    [page : Pages, userFid : Opt(FidValues), walletConnected : BOOLEAN,
     selectedDomain : Opt(Texts \cup {"other"})]

ProducedByEncode(state) ==
    IsSome(state) /\ \E s \in FrameStates : EncodeFrameState(s) = Get(state)

\* C1: the token the handler emits is the encoding of nextState, and
\* decoding it gives nextState back, for every state the handler emits.
C1_RoundTrip ==
    Handled =>
        /\ Get(response).state = Some(EncodeFrameState(nextState))
        /\ ParseFrameState(Get(response).state) = nextState

C1_Witness ==
    /\ Handled
    /\ nextState.page = "gallery"
    /\ nextState.userFid = Some(MaxFid)
    /\ nextState.selectedDomain = Some("myname")
    /\ ParseFrameState(Get(response).state) = nextState

\* C2: an absent token, and every token that is not the encoding of a
\* FrameState, decodes to the default state, and the handler goes on to its
\* normal response (decoding raised nothing).
C2_DecodeDefault ==
    (body.kind = "object" /\ IsSome(response) /\ ~ProducedByEncode(body.state))
        => /\ currentState = DefaultState
           /\ response # Some(FallbackResponse)

C2_Witness ==
    /\ Handled
    /\ IsSome(body.state)
    /\ Get(body.state) # <<>>
    /\ ~ProducedByEncode(body.state)
    /\ currentState = DefaultState
    /\ IsSome(Get(response).state)

\* C3: button 1 leads to search with [Back, Continue], button 3 to gallery
\* with [Back, marketplace link], no button or another one to home with
\* [Register Domain, My Domains, Visit App (link)], whatever the current page
\* and the input text.
C3_ButtonTable ==
    Handled =>
        LET bs == Get(response).buttons IN
        /\ body.buttonIndex = Some(1) =>
              /\ nextState.page = "search"
              /\ Labels(bs) = <<"Back", "Continue">>
              /\ Actions(bs) = <<"post", "post">>
        /\ body.buttonIndex = Some(3) =>
              /\ nextState.page = "gallery"
              /\ Labels(bs) = <<"Back", "View on OpenSea">>
              /\ Actions(bs) = <<"post", "link">>
        /\ (body.buttonIndex = None
            \/ (IsSome(body.buttonIndex) /\ Get(body.buttonIndex) \notin 1..3)) =>
              /\ nextState.page = "home"
              /\ Labels(bs) = <<"Register Domain", "My Domains", "Visit App">>
              /\ Actions(bs) = <<"post", "post", "link">>

C3_Witness ==
    /\ Handled
    /\ body.buttonIndex = Some(3)
    /\ Truthy(body.inputText)
    /\ currentState.page = "register"
    /\ nextState.page = "gallery"

\* C4: button 2 with an input text leads to register with selectedDomain
\* set to the text and the buttons [Back, Register Now], from any state.
C4_RegisterWithText ==
    (Handled /\ body.buttonIndex = Some(2) /\ Truthy(body.inputText)) =>
        /\ nextState.page = "register"
        /\ nextState.selectedDomain = body.inputText
        /\ Labels(Get(response).buttons) = <<"Back", "Register Now">>

C4_Witness ==
    /\ Handled
    /\ body.buttonIndex = Some(2)
    /\ body.inputText = Some("myname")
    /\ currentState.page = "gallery"
    /\ currentState.selectedDomain = Some("other")
    /\ nextState.page = "register"
    /\ nextState.selectedDomain = Some("myname")

\* C5 as stated: button 2 without input text leads to the search page, from
\* any state.
C5_Original ==
    (Handled /\ body.buttonIndex = Some(2) /\ body.inputText = None) =>
        /\ nextState.page = "search"
        /\ Labels(Get(response).buttons) = <<"Back", "Check Availability">>

\* C5 as amended: button 2 without input text leaves the page of the decoded
\* state unchanged and emits the buttons [Back, Check Availability].
C5_PageUnchanged ==
    (Handled /\ body.buttonIndex = Some(2) /\ body.inputText = None) =>
        /\ nextState.page = currentState.page
        /\ Labels(Get(response).buttons) = <<"Back", "Check Availability">>

C5_Witness ==
    /\ Handled
    /\ body.buttonIndex = Some(2)
    /\ body.inputText = None
    /\ currentState.page = "gallery"
    /\ nextState.page = "gallery"

\* C6: for every decoded state and every event the handler produces a next
\* state whose page is one of the four pages and a non-empty button list.
C6_Total ==
    (body.kind = "object") =>
        /\ IsSome(response)
        /\ nextState.page \in Pages
        /\ Len(Get(response).buttons) > 0

C6_Witness ==
    /\ Handled
    /\ body.buttonIndex = Some(MaxButton)
    /\ body.inputText = Some("")
    /\ currentState.page = "search"
    /\ nextState.page = "home"
    /\ Len(Get(response).buttons) = 3

\* C7: every request is answered, with status 200 and a non-empty button
\* list; when reading the body fails the answer is the fallback home screen.
C7_Always200 ==
    (body.kind # "none") =>
        /\ IsSome(response)
        /\ Get(response).status = 200
        /\ Len(Get(response).buttons) > 0
        /\ body.kind # "object" =>
              /\ Get(response).image[1] = "Farcaster Names"
              /\ Labels(Get(response).buttons) = <<"Try Again", "Visit App">>

C7_Witness ==
    /\ body.kind = "null"
    /\ IsSome(response)
    /\ Get(response).status = 200
    /\ Labels(Get(response).buttons) = <<"Try Again", "Visit App">>

(***************************************************************************)
(* Properties of validateMintingParams (SpecValidate).                     *)
(***************************************************************************)
\* The six rules, as violations, with their messages, in the order tested.
Violations(p) ==
    << <<Len(p.domain) < 3, "Domain must be at least 3 characters">>,
       <<p.fid <= 0, "Valid FID is required">>,
       <<p.farcasterUsername = "", "Farcaster username is required">>,
       <<~IsAddress(p.walletAddress), "Valid wallet address is required">>,
       <<p.bio = "", "Bio is required">>,
       <<p.metadataURI = "", "Metadata URI is required">> >>

\* The number of entries of errors equal to message.
Count(errors, message) ==
    Cardinality({i \in 1..Len(errors) : errors[i] = message})

\* C8: every call returns one message per violated rule and none for a rule
\* that holds, in the order of the rules; isValid iff no rule is violated;
\* repeated calls return the same list.
C8_AllViolations ==
    \A c \in 1..Len(validation) :
        LET r == validation[c]
            v == Violations(params)
        IN  /\ \A k \in 1..Len(v) :
                  Count(r.errors, v[k][2]) = (IF v[k][1] THEN 1 ELSE 0)
            /\ Len(r.errors) = Cardinality({k \in 1..Len(v) : v[k][1]})
            /\ \A i, j \in 1..Len(r.errors) :
                  i < j =>
                     \E k, l \in 1..Len(v) :
                        k < l /\ v[k][2] = r.errors[i] /\ v[l][2] = r.errors[j]
            /\ r.isValid = (\A k \in 1..Len(v) : ~v[k][1])
            /\ r = validation[1]

C8_Witness ==
    /\ Len(validation) = MaxValidateCalls
    /\ \A k \in 1..6 : Violations(params)[k][1]
    /\ Len(validation[1].errors) = 6
    /\ ~validation[1].isValid

(***************************************************************************)
(* Properties of registerDomainWithTransaction (SpecReg).                  *)
(***************************************************************************)
\* C9: when the confirmation resolves with no receipt or with a receipt
\* whose status is not success, the outcome has success false, an error,
\* and neither a transactionHash nor a receipt.
C9_FailedReceipt ==
    (IsSome(regReceipt)
     /\ (Get(regReceipt) = None \/ Get(Get(regReceipt)).status # 1)) =>
        /\ IsSome(regOutcome)
        /\ Get(regOutcome).success = FALSE
        /\ IsSome(Get(regOutcome).error)
        /\ Get(regOutcome).transactionHash = None
        /\ Get(regOutcome).receipt = None

C9_Witness ==
    /\ IsSome(regReceipt)
    /\ IsSome(Get(regReceipt))
    /\ Get(Get(regReceipt)).status = 0
    /\ IsSome(regTx)
    /\ IsSome(regOutcome)
    /\ Get(regOutcome).success = FALSE
    /\ Get(regOutcome).error = Some("Transaction failed or was reverted")

\* C10: the invocation ends exactly when it has an outcome, and the outcome
\* is either success with a transactionHash and no error, or failure with
\* an error and no transactionHash, whichever step failed.
C10_ExactlyOneShape ==
    /\ regPc \in {"idle", "abi", "send", "wait", "done"}
    /\ (regPc = "done") = IsSome(regOutcome)
    /\ IsSome(regOutcome) =>
          LET o == Get(regOutcome) IN
          \/ o.success /\ IsSome(o.transactionHash) /\ o.error = None
          \/ ~o.success /\ IsSome(o.error) /\ o.transactionHash = None

C10_Witness ==
    /\ regPc = "done"
    /\ IsSome(regTx)
    /\ regReceipt = None
    /\ IsSome(regOutcome)
    /\ ~Get(regOutcome).success
    /\ Get(regOutcome).error = Some("Unknown error")

(***************************************************************************)
(* More properties of POST /api/frame (SpecFrame).                         *)
(***************************************************************************)
\* C18: in every state emitted by the try block walletConnected is true, and
\* when the request carries an fid the emitted userFid is that fid.
C18_WalletAndFid ==
    Handled =>
        /\ nextState.walletConnected
        /\ ParseFrameState(Get(response).state).walletConnected
        /\ IsSome(body.fid) =>
              /\ nextState.userFid = body.fid
              /\ ParseFrameState(Get(response).state).userFid = body.fid

C18_Witness ==
    /\ Handled
    /\ body.fid = Some(MaxFid)
    /\ currentState.userFid = None
    /\ ~currentState.walletConnected
    /\ nextState.userFid = Some(MaxFid)
    /\ nextState.walletConnected

\* C19 as stated: every response, the fallback response included, carries a
\* state token, which encodes the next state computed for the request.
C19_EveryResponseHasState ==
    IsSome(response) =>
        /\ IsSome(Get(response).state)
        /\ Get(response).state = Some(EncodeFrameState(nextState))

\* The next state of the transition from the state a token encodes.
Transition(state, fid, buttonIndex, inputText) ==
    SwitchButtonIndex(SpreadNextState(ParseFrameState(state), fid),
                      buttonIndex, inputText).state

\* C20: from every state the handler emitted (returned by the client as it
\* was sent) some event leads to home, and some event leads to a page other
\* than the state's page.
C20_NoTerminalPage ==
    Handled =>
        /\ \E bi \in Opt(1..MaxButton), t \in Opt(Texts) :
              Transition(Get(response).state, body.fid, bi, t).page = "home"
        /\ \E bi \in Opt(1..MaxButton), t \in Opt(Texts) :
              Transition(Get(response).state, body.fid, bi, t).page
                 # nextState.page

C20_Witness ==
    /\ Handled
    /\ currentState.page = "register"
    /\ nextState.page = "home"
    /\ body.buttonIndex = None
    /\ body.state # None

(***************************************************************************)
(* Properties of estimateMintingGas (SpecGas).                             *)
(***************************************************************************)

\* C11: estimateMintingGas never rejects: every way through it ends with a
\* returned estimate, and when the provider's construction or the fee-data
\* query failed the estimate returned is the fixed fallback, estimatedGas
\* '150000', gasPrice 1 gwei, estimatedCost '0.00015', estimatedCostUSD '0.30'.
C11_NeverRejects ==
    /\ gasPc \in {"idle", "fee", "done"}
    /\ (gasPc = "done") <=> IsSome(gasResult)
    /\ IsSome(gasError) =>
          /\ gasPc = "done"
          /\ gasResult = Some([estimatedGas |-> "150000",
                               gasPrice |-> "1000000000",
                               estimatedCost |-> "0.00015",
                               estimatedCostUSD |-> "0.30"])

\* The fee-data query was rejected and the call has returned.
C11_Witness ==
    /\ gasError = Some("feeData")
    /\ gasPc = "done"
    /\ IsSome(gasResult)

(***************************************************************************)
(* Properties of POST /register (SpecPrep).                                *)
(***************************************************************************)
MissingField(b) ==
    \/ ~IsSome(b.domain) \/ Get(b.domain) = <<>>
    \/ ~IsSome(b.farcasterUsername) \/ Get(b.farcasterUsername) = ""
    \/ ~IsSome(b.walletAddress) \/ Get(b.walletAddress) = <<>>

InvalidField(b) ==
    \/ MissingField(b)
    \/ ~IsAddress(Get(b.walletAddress))
    \/ ~IsSome(b.fid)
    \/ Get(b.fid) <= 0

Unconfigured ==
    prepEnv.NEXT_PUBLIC_CELO_CONTRACT_ADDRESS \in {None, Some("")}

FormViolations(f) ==
    (IF Trim(f.farcasterUsername) = <<>>
        THEN {"Farcaster username is required"} ELSE {})
    \cup (IF ~IsSome(f.farcasterFid) \/ Get(f.farcasterFid) <= 0
             THEN {"Valid Farcaster ID is required"} ELSE {})
    \cup (IF Trim(f.bio) = <<>> THEN {"Bio is required"} ELSE {})

\* C13: when the submitted data is invalid, handleSubmit reports all the
\* violated rules and stops without invoking onSubmit.
C13_AllViolationsReported ==
    formEvent.kind = "invalid" =>
        /\ FormViolations(formEvent.fields)
              \subseteq (IF IsSome(form.error) THEN {Get(form.error)} ELSE {})
        /\ formCalls = formEvent.calls
        /\ formPending.submit = None

\* C14: when onSubmit fails, the form shows the failure's message verbatim
\* (the message of the Error; 'Registration failed' when what was thrown
\* is no Error), success stays false, loading is false again, the entered
\* fields are as they were, and no call of onSubmit is pending or was
\* added.
C14_FailureShown ==
    formEvent.kind = "failed" =>
        LET err == Get(formEvent.thrown)
        IN  /\ form.error = Some(IF err.isError THEN err.message
                                 ELSE "Registration failed")
            /\ ~form.success
            /\ ~form.loading
            /\ Fields(form) = formEvent.fields
            /\ formPending.submit = None
            /\ formCalls = formEvent.calls

\* onSubmit rejected with an Error while the form held a username, an fid
\* and a bio.
C14_Witness ==
    /\ formEvent.kind = "failed"
    /\ Get(formEvent.thrown).isError
    /\ form.error = Some("insufficient funds")
    /\ form.bio = <<"h", "i">>
    /\ form.farcasterUsername = Bob
    /\ IsSome(form.farcasterFid)

\* C15: whenever the form is in its success state a submission has been
\* made and has succeeded, and txHash is set.
C15_SuccessHasHash ==
    form.success => formCalls > 0 /\ IsSome(form.txHash)

(***************************************************************************)
(* Properties of prepareMintMetadata (SpecMeta).                           *)
(***************************************************************************)

\* The time an ISO text denotes.
FromISOString(text) == Time(text[2], text[4])

\* C16: in the metadata of prepareMintMetadata and in the payload of POST
\* /register the expiry timestamp is the registration timestamp plus
\* exactly 365 days.
C16_ExpiryIsTerm ==
    /\ \A i \in 1..Len(metadata) :
          LET m == metadata[i].result
          IN  FromISOString(m.expires_at)
                 = [FromISOString(m.registered_at) EXCEPT !.day = @ + 365]
    /\ IsSome(prepResponse) /\ IsSome(Get(prepResponse).payload) =>
          LET g == Get(Get(prepResponse).payload).registration
          IN  FromISOString(g.expiresAt)
                 = [FromISOString(g.registeredAt) EXCEPT !.day = @ + 365]

TraitTypes(m) == [k \in 1..Len(m.attributes) |-> m.attributes[k].trait_type]

C21_AcceptedDomainIsSafe ==
    \A i \in 1..Len(validation) :
        validation[i].isValid =>
            /\ Len(params.domain) >= 3 /\ Len(params.domain) <= 63
            /\ ValidateDomainNameFormat(params.domain).isValid

(***************************************************************************)
(* Submissions of the registration form (SpecForm).                        *)
(***************************************************************************)

\* C22: at most one onSubmit call is in flight at any time: while one is
\* awaited the form is loading, which disables the submit button, so no
\* submit event starts a second one.
C22_OneInFlight ==
    /\ Len(formPending.submit) <= 1
    /\ Len(formPending.submit) = 1 => form.loading
    /\ form.loading => Len(formPending.submit) = 1

\* A second submission is in flight after the first one has failed.
C22_Witness ==
    /\ Len(formPending.submit) = 1
    /\ formCalls = 2
    /\ form.loading

(***************************************************************************)
(* userFid across a POST /api/frame without fid (SpecFrame).               *)
(***************************************************************************)

\* C23: when the request carries no fid, the userFid decoded from the
\* inbound token is the userFid of the emitted state.
C23_UserFidKept ==
    Handled /\ body.fid = None =>
        /\ nextState.userFid = currentState.userFid
        /\ ParseFrameState(Get(response).state).userFid = currentState.userFid

(***************************************************************************)
(* registerDomainWithTransaction sends once (SpecReg).                     *)
(***************************************************************************)

\* C24: a call sends the register transaction at most once, and returns
\* success only after that transaction was sent and its receipt came with
\* status 1; the transactionHash returned is the hash of that transaction.
C24_SendsOnce ==
    /\ regSends <= 1
    /\ IsSome(regTx) => regSends = 1
    /\ IsSome(regOutcome) /\ Get(regOutcome).success =>
          /\ regSends = 1
          /\ IsSome(regTx)
          /\ IsSome(regReceipt) /\ IsSome(Get(regReceipt))
          /\ Get(Get(regReceipt)).status = 1
          /\ Get(regOutcome).transactionHash = Some(Get(regTx).hash)

\* The one transaction sent was rejected and the call has returned.
C24_Witness ==
    /\ regPc = "done"
    /\ regSends = 1
    /\ regTx = None
    /\ ~Get(regOutcome).success

(***************************************************************************)
(* The estimate of estimateMintingGas (SpecGas).                           *)
(***************************************************************************)

\* The estimate returned by the try block, with the gas price its cost is
\* to be the product of.
EstimateIs(price) ==
    LET r == Get(gasResult)
    IN  /\ r.estimatedGas = "150000"
        /\ r.gasPrice = WeiText(price)
        /\ r.estimatedCost = FormatEther(price * 150000)
        /\ price = 1 => r.estimatedCost = "0.00015"
        /\ price = 20 => r.estimatedCost = "0.003"
        /\ price = 25 => r.estimatedCost = "0.00375"

\* C25 as stated: gasPrice is the price the network reports, or 1 gwei
\* when the fee data reports none.
C25_Original ==
    gasPc = "done" /\ gasError = None =>
        EstimateIs(IF IsSome(Get(gasFee)) THEN Get(Get(gasFee)) ELSE 1)

\* C25: on the path without failure estimatedGas is 150000, gasPrice is the
\* price the network reports, or 1 gwei when the fee data reports none or
\* reports zero, and estimatedCost is exactly gasPrice x 150000 wei in CELO.
C25_CostIsProduct ==
    gasPc = "done" /\ gasError = None =>
        EstimateIs(IF IsSome(Get(gasFee)) /\ Get(Get(gasFee)) # 0
                   THEN Get(Get(gasFee)) ELSE 1)

\* The network reported a gas price of zero and the estimate is for 1 gwei.
C25_Witness ==
    /\ gasPc = "done"
    /\ gasFee = Some(Some(0))
    /\ Get(gasResult).gasPrice = "1000000000"
    /\ Get(gasResult).estimatedCost = "0.00015"

(***************************************************************************)
(* checkRateLimit (SpecRate).                                              *)
(***************************************************************************)

\* C26: per key, at most limit calls are allowed in a window; an allowed
\* call returns remaining = limit - (calls counted in the window) >= 0, a
\* denied call returns remaining 0, and a call that opens a window (the
\* first for the key, or the first strictly after the reset time) is
\* allowed.
C26_RateLimit ==
    /\ \A k \in RateKeys : rateWindow[k].allowed <= rateConfig.limit
    /\ rateLast.key \in RateKeys =>
          LET w == rateWindow[rateLast.key]
          IN  /\ rateLast.allowed =>
                    /\ rateLast.remaining = rateConfig.limit - w.calls
                    /\ rateLast.remaining >= 0
              /\ ~rateLast.allowed =>
                    /\ rateLast.remaining = 0
                    /\ w.calls > rateConfig.limit
              /\ rateLast.opens => rateLast.allowed

\* A key whose window was used up is allowed again after the reset time.
C26_Witness ==
    /\ rateLast.key \in RateKeys
    /\ rateLast.reopens
    /\ rateLast.allowed
    /\ \E k \in RateKeys : rateWindow[k].calls > rateConfig.limit

(***************************************************************************)
(* The response cache (SpecCache).                                         *)
(***************************************************************************)

\* Whether the write w, if any, has not expired at time now.
Live(w, now) ==
    IsSome(w) /\ ~After(now, Later(Get(w).at, Get(w).ttl))

\* C27: getCachedResponse(key) returns the data of the most recent
\* cacheResponse for the key iff the time is not past its expiry and no
\* later invalidateCache matched the key; otherwise it returns null, and an
\* entry found expired is removed by the read.
C27_CacheGet ==
    cacheLast.op = "get" =>
        LET w == cacheWrites[cacheLast.key]
        IN  /\ cacheLast.result =
                  IF Live(w, cacheLast.now) THEN Some(Get(w).data) ELSE None
            /\ ~Live(w, cacheLast.now) => cache[cacheLast.key] = None

\* A read found an expired entry that no invalidation had matched.
C27_Witness ==
    /\ cacheLast.op = "get"
    /\ IsSome(cacheWrites[cacheLast.key])
    /\ cacheLast.result = None
    /\ cache[cacheLast.key] = None

(***************************************************************************)
(* Wallet polling (SpecWallet).                                            *)
(***************************************************************************)
C28_Resolved ==
    waitPc = "resolved" =>
        /\ IsSome(waitResult) =>
              walletObserved.waitSeen = 1 /\ attempts <= 50
        /\ ~IsSome(waitResult) =>
              /\ walletObserved.waitSeen = 0
              /\ attempts = 50
              /\ walletObserved.waitPolls = 51

C28_Returned ==
    initPc = "returned" =>
        /\ IsSome(initResult)
        /\ Get(initResult) = (walletObserved.initSeen > 0)
        /\ retries <= 50
        /\ ~Get(initResult) /\ walletEnv.window =>
              retries = 50 /\ walletObserved.initChecks = 51

\* C28: polling always terminates.  waitForProvider resolves with the
\* provider at the first poll that sees it, or with none after 50
\* re-polls; initFarcasterWallet returns true iff a check within its 50
\* retries saw the wallet.
C28_PollingTerminates ==
    /\ [](C28_Resolved /\ C28_Returned)
    /\ (waitPc = "timer") ~> (waitPc = "resolved")
    /\ (initPc = "sleep") ~> (initPc = "returned")

\* Both gave up: no provider appeared in 50 re-polls and 50 retries.
C28_Witness ==
    /\ waitPc = "resolved" /\ waitResult = None /\ attempts = 50
    /\ initPc = "returned" /\ initResult = Some(FALSE) /\ retries = 50

(***************************************************************************)
(* The SDK's ready signal (SpecSdk).                                       *)
(***************************************************************************)

\* C29: however many times initializeFarcasterSDK is called,
\* sdk.actions.ready() is invoked at most once.
C29_ReadyAtMostOnce == sdkReadyCalls <= 1

(***************************************************************************)
(* The cleanup of onAccountChange (SpecAccount).                           *)
(***************************************************************************)

\* C30: after the cleanup function has been called, events the provider
\* emits later never invoke the callback.
C30_NoCallbackAfterCleanup == acctLate = 0


C32_FallbackIsConsistent ==
    \A i \in 1..Len(gasGet) :
        /\ gasGet[i].status = 200
        /\ gasGet[i].failed =>
            /\ Quantity(gasGet[i].body.gasEstimate) = Scaled(GasUnits, 0)
            /\ Quantity(gasGet[i].body.gasPrice) = Scaled(GweiPerEther, 0)
            /\ Times(Quantity(gasGet[i].body.gasEstimate),
                     Quantity(gasGet[i].body.gasPrice))
                 = Quantity(gasGet[i].body.totalCostWei)

(***************************************************************************)
(* Properties of a frame session (SpecSession).                            *)
(***************************************************************************)
\* The presentations one press of an offered button leads to, from the
\* presentation of a page that offers the given post buttons.
Presses(node) ==
    { LET out == SwitchButtonIndex(
                     SpreadNextState([DefaultState EXCEPT !.page = node.page],
                                     None),
                     Some(b), text)
      IN  [page |-> out.state.page, offered |-> PostButtons(out.buttons)] :
        b \in node.offered, text \in Opt(Texts) }

\* The presentations reachable from those of S by presses of offered buttons.
RECURSIVE Navigable(_)
Navigable(S) ==
    LET T == S \cup UNION {Presses(n) : n \in S}
    IN  IF T = S THEN S ELSE Navigable(T)

\* C33: a client that only presses post buttons the presentation on screen
\* offers (first those of the GET frame) can reach every page from home, and
\* home again from every page: wherever the session is, every page is
\* within reach.
C33_EveryPageWithinReach ==
    Pages \subseteq
        {n.page : n \in Navigable({[page |-> nextState.page,
                                    offered |-> offered]})}

(***************************************************************************)
(* More properties of POST /api/frame (SpecFrame).                         *)
(***************************************************************************)
\* C34: the selectedDomain of the emitted frame state differs from the
\* decoded one only on a buttonIndex-2 event with non-empty inputText; every
\* other transition, the one back to home included, leaves it unchanged, and
\* a buttonIndex-2 event without inputText leaves the page unchanged too.
C34_SelectedDomainKept ==
    (body.kind = "object" /\ IsSome(response)) =>
        LET emitted == ParseFrameState(Get(response).state)
            typed == body.buttonIndex = Some(2) /\ Truthy(body.inputText)
        IN  /\ emitted.selectedDomain # currentState.selectedDomain => typed
            /\ (body.buttonIndex = Some(2) /\ ~typed) =>
                   emitted.page = currentState.page

\* A request back to home whose token carried a selected domain.
C34_Witness ==
    /\ body.kind = "object"
    /\ body.buttonIndex = Some(MaxButton)
    /\ IsSome(currentState.selectedDomain)
    /\ currentState.page = "gallery"
    /\ nextState.page = "home"
    /\ ParseFrameState(Get(response).state).selectedDomain
         = currentState.selectedDomain

(***************************************************************************)
(* Properties of the auto-mint flow (SpecAuto).                            *)
(***************************************************************************)
\* C35: with autoMint enabled, when the auto-connect flow has failed (no FID
\* in the context, or the lookup returned no user) the form is left with an
\* error and loading false, and autoConnectAndFetch is not started again
\* unless its inputs have changed: the effect does not retry indefinitely.
C35_NoRetryAfterFailure ==
    /\ (autoPc = "idle" /\ autoRuns # <<>> /\ autoRuns[Len(autoRuns)].failed) =>
           IsSome(autoHook.error) /\ ~AutoMintLoading(autoHook)
    /\ \A i \in 1..(Len(autoRuns) - 1) :
           autoRuns[i].failed => autoRuns[i + 1].inputs # autoRuns[i].inputs

(***************************************************************************)
(* POST /api/register against validateMintingParams (SpecPrep).            *)
(***************************************************************************)
\* The string a sequence of strings spells.
RECURSIVE Text(_)
Text(pieces) == IF pieces = <<>> THEN "" ELSE Head(pieces) \o Text(Tail(pieces))

\* The MintingParams a prepared registration holds; a member the request
\* left out is undefined, which validateMintingParams treats as it treats ''.
PreparedParams(registration) ==
    [domain |-> registration.domain,
     bio |-> IF IsSome(registration.bio) THEN Get(registration.bio) ELSE "",
     socialLinks |-> None,
     farcasterUsername |-> registration.farcasterUsername,
     fid |-> registration.fid,
     walletAddress |-> registration.owner,
     metadataURI |-> Text(registration.metadataURI)]

\* C36: every request POST /register answers with 200 yields registration
\* parameters (with the defaulted metadataURI) that validateMintingParams
\* accepts.
C36_PreparedIsAccepted ==
    (IsSome(prepResponse) /\ Get(prepResponse).status = 200) =>
        ValidateMintingParams(
            PreparedParams(Get(Get(prepResponse).payload).registration)).isValid

(***************************************************************************)
(* The fallback of estimateMintingGas (SpecGas).                           *)
(***************************************************************************)
\* C37: the fallback estimate is consistent with the formula of the path
\* without failure: its estimatedCost is estimatedGas x gasPrice (150000 x
\* 1 gwei) in CELO, and its estimatedCostUSD is what that path computes for
\* the same cost at 2 USD per CELO.
C37_FallbackFollowsFormula ==
    (gasPc = "done" /\ IsSome(gasError)) =>
        LET r == Get(gasResult)
        IN  /\ r.estimatedGas = ToString(estimatedGasUnits)
            /\ r.gasPrice = WeiText(1)
            /\ r.estimatedCost = FormatEther(1 * estimatedGasUnits)
            /\ r.estimatedCostUSD = CostUSDText(1 * estimatedGasUnits)

(***************************************************************************)
(* registerDomainWithTransaction without a contract address (SpecReg).     *)
(***************************************************************************)
\* C38: when the contract address is not configured the call returns
\* success false with the error 'Contract address not configured', without
\* loading the ABI and without sending a transaction through the signer.
C38_UnconfiguredSendsNothing ==
    regEnv.CONTRACT_ADDRESS = "" =>
        /\ regAbiLoads = 0 /\ regAbi = None
        /\ regSends = 0 /\ regTx = None
        /\ regPc \in {"idle", "done"}
        /\ regPc = "done" =>
              regOutcome = Some(Outcome(FALSE, None,
                               Some("Contract address not configured"), None))

\* A call made without a contract address has returned.
C38_Witness ==
    /\ regEnv.CONTRACT_ADDRESS = ""
    /\ regPc = "done"
    /\ IsSome(regOutcome)

(***************************************************************************)
(* onAccountChange under overlapping events (SpecAccount).                 *)
(***************************************************************************)
\* C39: when events arrive while an earlier handler is still awaiting the
\* provider, the last value delivered to the callback reflects the
\* provider's most recent account state: once every handler has finished, a
\* disconnected provider's last delivery is null, never a connected account
\* delivered after the null of the disconnect.
C39_LastDeliveryIsCurrent ==
    (/\ acctPending = <<>>
     /\ acctDelivered # <<>>
     /\ acctProvider.accounts = <<>>) =>
        acctDelivered[Len(acctDelivered)] = None
=============================================================================
